---- MODULE Spec2Model ----
(***************************************************************************)
(* Model of the job-ops pipeline orchestrator (runPipeline), the remote    *)
(* resume lifecycle (generatePdf) and the resume tailoring / project       *)
(* selection code (prepareTailoredResumeForPdf and its helpers).           *)
(***************************************************************************)
EXTENDS Integers, Sequences, FiniteSets, TLC

(***************************************************************************)
(* Bounds of the model.                                                    *)
(***************************************************************************)
NumCallers == 2
NumJobs == 2
NumPdfCalls == 2
MaxSkills == 2
MaxTailoredSkills == 2
MaxProjectItems == 2
MaxMaxProjects == 3
NumUrls == 2
NumManualCalls == 2
NumListeners == 2
NumProfileCalls == 1
MaxKeyEntries == 3
NumBaseResumes == 2
MaxBulkInputs == 2

Callers == 1..NumCallers
PdfCalls == 1..NumPdfCalls
JobIds == 1..NumJobs

(***************************************************************************)
(* Program constants.                                                      *)
(***************************************************************************)
DefaultTopN == 10
DefaultMinSuitabilityScore == 50
ProcessingLimit == 50

\* suitability scores the scorer may return (0-100), one below and one
\* above the default threshold
ScoreValues == {40, 60}
\* topN values a caller may pass in its config
TopNValues == {1, DefaultTopN}

NoScore == -1
NullPath == 0
NoRun == 0
NoJob == 0

MsgAlreadyRunning == "Pipeline is already running"
MsgCrawlerFailed == "Crawler failed"
MsgThrown == "Unknown error"
NoMessage == ""

VARIABLES
  isPipelineRunning,  \* module-level flag of the pipeline
  pipelineRuns,       \* PipelineRun records, indexed by run id
  jobs,               \* job store: job id -> record
  run,                \* per caller: position and locals of its runPipeline call
  result,             \* per caller: value returned by runPipeline
  hist                \* per caller: what its call in progress did (history)

pipeVars == <<isPipelineRunning, pipelineRuns, jobs, run, result, hist>>

VARIABLES
  remoteResumes,      \* ids of the temporary resumes that exist on the remote store
  nextResumeId,       \* the id the remote store gives to the next import
  localPdfs,          \* job ids whose resume_<jobId>.pdf exists locally
  pdf,                \* per generatePdf call: position, locals and history
  pdfResult,          \* per generatePdf call: the PdfResult returned
  deletesIssued       \* resume ids for which a delete request was sent (history)

pdfVars == <<remoteResumes, nextResumeId, localPdfs, pdf, pdfResult, deletesIssued>>

VARIABLES
  prepArgs,           \* arguments of prepareTailoredResumeForPdf
  prepPc,             \* position of the prepareTailoredResumeForPdf call
  workingCopy,        \* the clone of the parsed resume the call works on
  selection           \* the settings read, what the picker was offered, the ids selected

prepVars == <<prepArgs, prepPc, workingCopy, selection>>

VARIABLES
  jobRows,            \* the rows of the jobs table, in the order of their insertion
  repoCall,           \* the last repository call: its input and what it returned
  repoRace            \* per concurrent repository call: its position and locals

repoVars == <<jobRows, repoCall, repoRace>>

VARIABLES
  manual              \* per processJob call: position, locals and what it did

VARIABLES
  cancelRequested     \* the cancellation flag set by cancelPipeline

VARIABLES
  currentProgress,    \* the cached progress snapshot
  listeners,          \* the subscribed listeners, in the order of their insertion
  subscriptions,      \* per listener: none, active, or ended by its unsubscribe handle
  lastOp,             \* the last progress operation and the snapshots it delivered
  lastDelivered       \* per subscribed listener: the snapshot it was last called with

progressVars == <<currentProgress, listeners, subscriptions, lastOp, lastDelivered>>

VARIABLES
  rx                  \* the adapter operation in progress and the client calls it made

\* the state of the components that a specification of another one leaves alone
VARIABLES
  profile,            \* the profile cache, the configured id, the remote resumes, the calls
  keyRun              \* one request of the v5 client: its keys, attempt and requests sent

svcVars == <<profile, keyRun>>

sideVars == <<repoVars, progressVars, rx, svcVars>>

vars == <<pipeVars, pdfVars, prepVars, sideVars, manual, cancelRequested>>

----------------------------------------------------------------------------
(* Helpers *)

RECURSIVE SeqToSet(_)
SeqToSet(s) == IF s = <<>> THEN {} ELSE {Head(s)} \cup SeqToSet(Tail(s))

Take(s, n) == SubSeq(s, 1, IF n < Len(s) THEN n ELSE Len(s))

\* all orderings of the set S
Orderings(S) ==
  {s \in [1..Cardinality(S) -> S] : \A i, j \in 1..Cardinality(S) : s[i] = s[j] => i = j}

----------------------------------------------------------------------------
(* Job repository *)

AbsentJob ==
  [exists |-> FALSE, status |-> "discovered", suitabilityScore |-> NoScore,
   tailoredSummary |-> FALSE, pdfPath |-> NullPath]

NewJob == [AbsentJob EXCEPT !.exists = TRUE]

\* bulkCreateJobs: every posting whose URL is not yet stored is inserted as
\* `discovered`; the others are skipped
BulkCreateJobs(store, postings) ==
  [j \in JobIds |-> IF j \in postings /\ ~store[j].exists THEN NewJob ELSE store[j]]

CreatedBy(store, postings) == {j \in postings : ~store[j].exists}

\* getJobsForProcessing: the discovered jobs
GetJobsForProcessing(store) ==
  {j \in JobIds : store[j].exists /\ store[j].status = "discovered"}

\* the deterministic local path of a job's PDF
PdfPathOf(j) == j

----------------------------------------------------------------------------
(* runPipeline *)

IdleRun ==
  [pc |-> "idle", runId |-> NoRun, topN |-> DefaultTopN, crawled |-> {},
   created |-> 0, ranked |-> <<>>, scores |-> <<>>, k |-> 0,
   topJobs |-> <<>>, idx |-> 0, processed |-> 0, pdfOk |-> FALSE,
   message |-> NoMessage]

\* a call that has ended: its locals are gone
Ended(how) == [IdleRun EXCEPT !.pc = how]

NoResult == [returned |-> FALSE, success |-> FALSE, jobsDiscovered |-> 0,
             jobsProcessed |-> 0, error |-> NoMessage]

NoHist ==
  [crawlFailed |-> FALSE, inserted |-> {}, scored |-> {}, processing |-> {},
   ready |-> {}, threw |-> {}, summaryFailed |-> {}, pdfFailed |-> {},
   calls |-> {}, produced |-> {}]

InitPipeline ==
  /\ isPipelineRunning = FALSE
  /\ pipelineRuns = <<>>
  /\ jobs = [j \in JobIds |-> AbsentJob]
  /\ run = [p \in Callers |-> IdleRun]
  /\ result = [p \in Callers |-> NoResult]
  /\ hist = [p \in Callers |-> NoHist]

\* the calls are numbered in the order they are made
CalledInOrder(p) == \A q \in Callers : q < p => run[q].pc # "idle"

\* a plausible bug: the test of the flag is missing
RunPipelineRejectMutant(p) ==
  /\ UNCHANGED <<pdfVars, prepVars, sideVars, manual, cancelRequested>>
  /\ run[p].pc = "idle"
  /\ CalledInOrder(p)
  /\ isPipelineRunning
  /\ isPipelineRunning' = TRUE
  /\ \E n \in TopNValues : run' = [run EXCEPT ![p].pc = "create", ![p].topN = n]
  /\ UNCHANGED <<pipelineRuns, jobs, result, hist>>

\* lines 47-54: a run is in flight, the call returns the already-running error
RunPipelineReject(p) ==
  /\ UNCHANGED <<pdfVars, prepVars, sideVars, manual, cancelRequested>>
  /\ run[p].pc = "idle"
  /\ CalledInOrder(p)
  /\ isPipelineRunning
  /\ run' = [run EXCEPT ![p].pc = "returned"]
  /\ result' = [result EXCEPT ![p] =
        [returned |-> TRUE, success |-> FALSE, jobsDiscovered |-> 0,
         jobsProcessed |-> 0, error |-> MsgAlreadyRunning]]
  /\ UNCHANGED <<isPipelineRunning, pipelineRuns, jobs, hist>>

\* lines 56-57: the flag is set in the same synchronous stretch as the test
RunPipelineAcquire(p) ==
  /\ UNCHANGED <<pdfVars, prepVars, sideVars, manual, cancelRequested>>
  /\ run[p].pc = "idle"
  /\ CalledInOrder(p)
  /\ ~isPipelineRunning
  /\ isPipelineRunning' = TRUE
  /\ \E n \in TopNValues : run' = [run EXCEPT ![p].pc = "create", ![p].topN = n]
  /\ UNCHANGED <<pipelineRuns, jobs, result, hist>>

\* line 60: createPipelineRun, awaited outside the try block; when it
\* rejects the promise of runPipeline rejects
CreatePipelineRun(p) ==
  /\ UNCHANGED <<pdfVars, prepVars, sideVars, manual, cancelRequested>>
  /\ run[p].pc = "create"
  /\ \/ /\ pipelineRuns' = Append(pipelineRuns,
              [status |-> "running", jobsDiscovered |-> 0, jobsProcessed |-> 0,
               errorMessage |-> NoMessage])
        /\ run' = [run EXCEPT ![p].pc = "crawl", ![p].runId = Len(pipelineRuns) + 1]
     \/ /\ run' = [run EXCEPT ![p] = Ended("rejected")]
        /\ UNCHANGED pipelineRuns
  /\ UNCHANGED <<isPipelineRunning, jobs, result, hist>>

\* what the crawler may return: any of the postings already stored, and
\* new postings, which are numbered in the order of their discovery
Known(store) == {j \in JobIds : store[j].exists}
CrawlResults(store) ==
  {K \cup F : K \in SUBSET Known(store),
               F \in {(Cardinality(Known(store)) + 1)..m : m \in Cardinality(Known(store))..NumJobs}}

\* lines 66-76: loadProfile (never throws) and runCrawler
RunCrawler(p) ==
  /\ UNCHANGED <<pdfVars, prepVars, sideVars, manual, cancelRequested>>
  /\ run[p].pc = "crawl"
  /\ \/ \E postings \in CrawlResults(jobs) :
          /\ run' = [run EXCEPT ![p].pc = "import", ![p].crawled = postings]
          /\ hist' = [hist EXCEPT ![p].calls = @ \cup {"crawler"}]
     \/ /\ run' = [run EXCEPT ![p].pc = "catch", ![p].message = MsgCrawlerFailed]
        /\ hist' = [hist EXCEPT ![p].calls = @ \cup {"crawler"}, ![p].crawlFailed = TRUE]
     \/ /\ run' = [run EXCEPT ![p].pc = "catch", ![p].message = MsgThrown]
        /\ hist' = [hist EXCEPT ![p].calls = @ \cup {"crawler"}]
  /\ UNCHANGED <<isPipelineRunning, pipelineRuns, jobs, result>>

\* line 80: bulkCreateJobs; crawlerResult.jobs is not read after this line
ImportJobs(p) ==
  /\ UNCHANGED <<pdfVars, prepVars, sideVars, manual, cancelRequested>>
  /\ run[p].pc = "import"
  /\ \/ /\ jobs' = BulkCreateJobs(jobs, run[p].crawled)
        /\ run' = [run EXCEPT ![p].pc = "discovered", ![p].crawled = {},
                              ![p].created = Cardinality(CreatedBy(jobs, run[p].crawled))]
        /\ hist' = [hist EXCEPT ![p].inserted = @ \cup CreatedBy(jobs, run[p].crawled)]
     \/ /\ run' = [run EXCEPT ![p].pc = "catch", ![p].message = MsgThrown]
        /\ UNCHANGED <<jobs, hist>>
  /\ UNCHANGED <<isPipelineRunning, pipelineRuns, result>>

\* lines 83-85: updatePipelineRun(jobsDiscovered)
UpdateJobsDiscovered(p) ==
  /\ UNCHANGED <<pdfVars, prepVars, sideVars, manual, cancelRequested>>
  /\ run[p].pc = "discovered"
  /\ \/ /\ pipelineRuns' = [pipelineRuns EXCEPT ![run[p].runId].jobsDiscovered = run[p].created]
        /\ run' = [run EXCEPT ![p].pc = "score"]
     \/ /\ run' = [run EXCEPT ![p].pc = "catch", ![p].message = MsgThrown]
        /\ UNCHANGED pipelineRuns
  /\ UNCHANGED <<isPipelineRunning, jobs, result, hist>>

\* scoreAndRankJobs: every job gets a score, the list is sorted by score,
\* highest first (jobs of equal score in the order of their ids)
RankedLists(S) ==
  {rs \in [ranked : Orderings(S), scores : [S -> ScoreValues]] :
     \A i \in 1..(Len(rs.ranked) - 1) :
        \/ rs.scores[rs.ranked[i]] > rs.scores[rs.ranked[i + 1]]
        \/ /\ rs.scores[rs.ranked[i]] = rs.scores[rs.ranked[i + 1]]
           /\ rs.ranked[i] < rs.ranked[i + 1]}

\* lines 101-103: the jobs at or above the threshold, truncated to topN
SelectTopJobs(ranked, scores, topN) ==
  Take(SelectSeq(ranked, LAMBDA j : scores[j] >= DefaultMinSuitabilityScore), topN)

\* the position after the score-persisting loop (lines 93-98): the top jobs
\* are picked and the per-job loop starts
AfterPersist(l) ==
  LET top == SelectTopJobs(l.ranked, l.scores, l.topN)
  IN [l EXCEPT !.topJobs = top, !.idx = 1, !.processed = 0,
               !.pc = IF top = <<>> THEN "finalize" ELSE "jobMark"]

\* the jobs scoreAndRankJobs may have scored when it fails at one of them
ScoredBeforeFailure(S) == {done \in SUBSET S : done # S \/ S = {}}

\* lines 89-90: getJobsForProcessing and scoreAndRankJobs, which scores the
\* jobs one by one and returns the whole list, or throws
ScoreAndRank(p) ==
  /\ UNCHANGED <<pdfVars, prepVars, sideVars, manual, cancelRequested>>
  /\ run[p].pc = "score"
  /\ \/ \E rs \in RankedLists(GetJobsForProcessing(jobs)) :
          /\ LET l == [run[p] EXCEPT !.ranked = rs.ranked, !.scores = rs.scores, !.k = 1]
             IN run' = [run EXCEPT ![p] =
                   IF rs.ranked = <<>> THEN AfterPersist(l) ELSE [l EXCEPT !.pc = "persist"]]
          /\ hist' = [hist EXCEPT ![p].calls = @ \cup {"scorer"},
                                  ![p].produced = GetJobsForProcessing(jobs)]
     \/ \E done \in ScoredBeforeFailure(GetJobsForProcessing(jobs)) :
          /\ run' = [run EXCEPT ![p].pc = "catch", ![p].message = MsgThrown]
          /\ hist' = [hist EXCEPT ![p].calls = @ \cup {"scorer"}, ![p].produced = done]
  /\ UNCHANGED <<isPipelineRunning, pipelineRuns, jobs, result>>

\* lines 93-98: one updateJob of the loop that stores the scores
PersistScore(p) ==
  /\ UNCHANGED <<pdfVars, prepVars, sideVars, manual, cancelRequested>>
  /\ run[p].pc = "persist"
  /\ LET j == run[p].ranked[run[p].k]
         l == [run[p] EXCEPT !.k = @ + 1]
     IN \/ /\ jobs' = [jobs EXCEPT ![j].suitabilityScore = run[p].scores[j]]
           /\ hist' = [hist EXCEPT ![p].scored = @ \cup {j}]
           /\ run' = [run EXCEPT ![p] =
                 IF l.k > Len(l.ranked) THEN AfterPersist(l) ELSE l]
        \/ /\ run' = [run EXCEPT ![p].pc = "catch", ![p].message = MsgThrown]
           /\ UNCHANGED <<jobs, hist>>
  /\ UNCHANGED <<isPipelineRunning, pipelineRuns, result>>

\* the loop of lines 113-163 moves to the next job, or ends
NextJob(l) ==
  [l EXCEPT !.idx = @ + 1,
            !.pc = IF l.idx + 1 > Len(l.topJobs) THEN "finalize" ELSE "jobMark"]

CurrentJob(p) == run[p].topJobs[run[p].idx]

\* a plausible bug: no try/catch around one job, a throwing job ends the run
JobThrowsMutant(p) ==
  /\ run' = [run EXCEPT ![p].pc = "catch", ![p].message = MsgThrown]
  /\ hist' = [hist EXCEPT ![p].threw = @ \cup {CurrentJob(p)}]

\* a step of the per-job try block throws: lines 159-162 log and continue
JobThrows(p) ==
  /\ run' = [run EXCEPT ![p] = NextJob(run[p])]
  /\ hist' = [hist EXCEPT ![p].threw = @ \cup {CurrentJob(p)}]

\* line 118: updateJob(status: processing)
MarkProcessing(p) ==
  /\ UNCHANGED <<pdfVars, prepVars, sideVars, manual, cancelRequested>>
  /\ run[p].pc = "jobMark"
  /\ \/ /\ jobs' = [jobs EXCEPT ![CurrentJob(p)].status = "processing"]
        /\ run' = [run EXCEPT ![p].pc = "jobSummary"]
        /\ hist' = [hist EXCEPT ![p].processing = @ \cup {CurrentJob(p)}]
     \/ /\ JobThrows(p)
        /\ UNCHANGED jobs
  /\ UNCHANGED <<isPipelineRunning, pipelineRuns, result>>

\* lines 122-130: generateSummary; a reported failure skips the job
GenerateSummary(p) ==
  /\ UNCHANGED <<pdfVars, prepVars, sideVars, manual, cancelRequested>>
  /\ run[p].pc = "jobSummary"
  /\ \/ /\ run' = [run EXCEPT ![p].pc = "jobSaveSummary"]
        /\ UNCHANGED hist
     \/ /\ run' = [run EXCEPT ![p] = NextJob(run[p])]
        /\ hist' = [hist EXCEPT ![p].summaryFailed = @ \cup {CurrentJob(p)}]
     \/ JobThrows(p)
  /\ UNCHANGED <<isPipelineRunning, pipelineRuns, jobs, result>>

\* lines 133-135: updateJob(tailoredSummary)
SaveSummary(p) ==
  /\ UNCHANGED <<pdfVars, prepVars, sideVars, manual, cancelRequested>>
  /\ run[p].pc = "jobSaveSummary"
  /\ \/ /\ jobs' = [jobs EXCEPT ![CurrentJob(p)].tailoredSummary = TRUE]
        /\ run' = [run EXCEPT ![p].pc = "jobPdf"]
        /\ UNCHANGED hist
     \/ /\ JobThrows(p)
        /\ UNCHANGED jobs
  /\ UNCHANGED <<isPipelineRunning, pipelineRuns, result>>

\* lines 139-148: generatePdf returns a result, a failure is only logged
GeneratePdfForJob(p) ==
  /\ UNCHANGED <<pdfVars, prepVars, sideVars, manual, cancelRequested>>
  /\ run[p].pc = "jobPdf"
  /\ \E ok \in BOOLEAN :
        /\ run' = [run EXCEPT ![p].pc = "jobReady", ![p].pdfOk = ok]
        /\ hist' = [hist EXCEPT ![p].calls = @ \cup {"pdf"},
                                ![p].pdfFailed = IF ok THEN @ ELSE @ \cup {CurrentJob(p)}]
  /\ UNCHANGED <<isPipelineRunning, pipelineRuns, jobs, result>>

\* lines 151-156: updateJob(status: ready, pdfPath) and processed++
MarkReady(p) ==
  /\ UNCHANGED <<pdfVars, prepVars, sideVars, manual, cancelRequested>>
  /\ run[p].pc = "jobReady"
  /\ \/ /\ jobs' = [jobs EXCEPT ![CurrentJob(p)].status = "ready",
                                ![CurrentJob(p)].pdfPath =
                                   IF run[p].pdfOk THEN PdfPathOf(CurrentJob(p)) ELSE NullPath]
        /\ run' = [run EXCEPT ![p] = NextJob([run[p] EXCEPT !.processed = @ + 1])]
        /\ hist' = [hist EXCEPT ![p].ready = @ \cup {CurrentJob(p)}]
     \/ /\ JobThrows(p)
        /\ UNCHANGED jobs
  /\ UNCHANGED <<isPipelineRunning, pipelineRuns, result>>

\* lines 166-182: updatePipelineRun(completed), the flag is cleared, return
FinalizeCompleted(p) ==
  /\ UNCHANGED <<pdfVars, prepVars, sideVars, manual, cancelRequested>>
  /\ run[p].pc = "finalize"
  /\ \/ /\ pipelineRuns' = [pipelineRuns EXCEPT
              ![run[p].runId].status = "completed",
              ![run[p].runId].jobsProcessed = run[p].processed]
        /\ isPipelineRunning' = FALSE
        /\ run' = [run EXCEPT ![p] = Ended("returned")]
        /\ result' = [result EXCEPT ![p] =
              [returned |-> TRUE, success |-> TRUE, jobsDiscovered |-> run[p].created,
               jobsProcessed |-> run[p].processed, error |-> NoMessage]]
        /\ hist' = [hist EXCEPT ![p] = NoHist]
     \/ /\ run' = [run EXCEPT ![p].pc = "catch", ![p].message = MsgThrown]
        /\ UNCHANGED <<pipelineRuns, isPipelineRunning, result, hist>>
  /\ UNCHANGED jobs

\* lines 184-203: updatePipelineRun(failed), the flag is cleared, return;
\* when the update rejects the promise of runPipeline rejects
FinalizeFailed(p) ==
  /\ UNCHANGED <<pdfVars, prepVars, sideVars, manual, cancelRequested>>
  /\ run[p].pc = "catch"
  /\ \/ /\ pipelineRuns' = [pipelineRuns EXCEPT
              ![run[p].runId].status = "failed",
              ![run[p].runId].errorMessage = run[p].message]
        /\ isPipelineRunning' = FALSE
        /\ run' = [run EXCEPT ![p] = Ended("returned")]
        /\ result' = [result EXCEPT ![p] =
              [returned |-> TRUE, success |-> FALSE, jobsDiscovered |-> 0,
               jobsProcessed |-> 0, error |-> run[p].message]]
     \/ /\ run' = [run EXCEPT ![p] = Ended("rejected")]
        /\ UNCHANGED <<pipelineRuns, isPipelineRunning, result>>
  /\ hist' = [hist EXCEPT ![p] = NoHist]
  /\ UNCHANGED jobs

\* cancelPipeline: the cancellation of the run in flight is requested
CancelPipeline ==
  /\ UNCHANGED <<pipeVars, pdfVars, prepVars, sideVars, manual>>
  /\ isPipelineRunning
  /\ ~cancelRequested
  /\ cancelRequested' = TRUE

NextPipeline ==
  \E p \in Callers :
     \/ RunPipelineReject(p)
     \/ RunPipelineAcquire(p)
     \/ CreatePipelineRun(p)
     \/ RunCrawler(p)
     \/ ImportJobs(p)
     \/ UpdateJobsDiscovered(p)
     \/ ScoreAndRank(p)
     \/ PersistScore(p)
     \/ MarkProcessing(p)
     \/ GenerateSummary(p)
     \/ SaveSummary(p)
     \/ GeneratePdfForJob(p)
     \/ MarkReady(p)
     \/ FinalizeCompleted(p)
     \/ FinalizeFailed(p)

----------------------------------------------------------------------------
(* processJob: the manual processing of one job *)

ManualCalls == 1..NumManualCalls

JobStatuses == {"discovered", "processing", "ready", "applied", "rejected", "expired"}

IdleManual ==
  [pc |-> "idle", jobId |-> NoJob, tailoredSummary |-> FALSE, pdfOk |-> FALSE,
   statusAtStart |-> "none", markedProcessing |-> FALSE, markedReady |-> FALSE,
   summaryFailed |-> FALSE, threw |-> FALSE, success |-> FALSE]

QuietManual == manual = [c \in ManualCalls |-> IdleManual]

QuietCancel == cancelRequested = FALSE

\* lines 259-262: the catch block returns the failure
ProcessJobThrows(c) == manual' = [manual EXCEPT ![c].pc = "returned", ![c].threw = TRUE]

\* a plausible bug: processJob takes the flag of runPipeline, and is refused
\* while a run is in flight
ProcessJobGetMutant(c) ==
  /\ UNCHANGED <<pdfVars, prepVars, sideVars, cancelRequested>>
  /\ manual[c].pc = "idle"
  /\ \A d \in ManualCalls : d < c => manual[d].pc # "idle"
  /\ \E j \in JobIds :
       IF isPipelineRunning
       THEN /\ manual' = [manual EXCEPT ![c].pc = "returned", ![c].jobId = j]
            /\ UNCHANGED isPipelineRunning
       ELSE /\ isPipelineRunning' = TRUE
            /\ \/ /\ jobs[j].exists
                  /\ manual' = [manual EXCEPT ![c].pc = "mark", ![c].jobId = j,
                                              ![c].tailoredSummary = jobs[j].tailoredSummary,
                                              ![c].statusAtStart = jobs[j].status]
               \/ /\ ~jobs[j].exists
                  /\ manual' = [manual EXCEPT ![c].pc = "returned", ![c].jobId = j]
  /\ UNCHANGED <<pipelineRuns, jobs, run, result, hist>>

\* lines 216-219: getJobById; an unknown id returns 'Job not found'
ProcessJobGet(c) ==
  /\ UNCHANGED <<pipeVars, pdfVars, prepVars, sideVars, cancelRequested>>
  /\ manual[c].pc = "idle"
  /\ \A d \in ManualCalls : d < c => manual[d].pc # "idle"
  /\ \E j \in JobIds :
       \/ /\ jobs[j].exists
          /\ manual' = [manual EXCEPT ![c].pc = "mark", ![c].jobId = j,
                                      ![c].tailoredSummary = jobs[j].tailoredSummary,
                                      ![c].statusAtStart = jobs[j].status]
       \/ /\ ~jobs[j].exists
          /\ manual' = [manual EXCEPT ![c].pc = "returned", ![c].jobId = j]
       \/ manual' = [manual EXCEPT ![c].pc = "returned", ![c].jobId = j, ![c].threw = TRUE]

\* lines 221-224: loadProfile, then updateJob(status: processing), whatever
\* the status of the job
ProcessJobMarkProcessing(c) ==
  /\ UNCHANGED <<pdfVars, prepVars, sideVars, cancelRequested>>
  /\ manual[c].pc = "mark"
  /\ \/ /\ jobs' = [jobs EXCEPT ![manual[c].jobId].status = "processing"]
        /\ manual' = [manual EXCEPT ![c].markedProcessing = TRUE,
                        ![c].pc = IF manual[c].tailoredSummary THEN "pdf" ELSE "summary"]
     \/ /\ ProcessJobThrows(c)
        /\ UNCHANGED jobs
  /\ UNCHANGED <<isPipelineRunning, pipelineRuns, run, result, hist>>

\* lines 227-234: generateSummary, when the job has no summary yet; a
\* reported failure is passed over
ProcessJobSummary(c) ==
  /\ UNCHANGED <<pipeVars, pdfVars, prepVars, sideVars, cancelRequested>>
  /\ manual[c].pc = "summary"
  /\ \/ manual' = [manual EXCEPT ![c].pc = "saveSummary"]
     \/ manual' = [manual EXCEPT ![c].pc = "pdf", ![c].summaryFailed = TRUE]
     \/ ProcessJobThrows(c)

\* lines 235-238: updateJob(tailoredSummary)
ProcessJobSaveSummary(c) ==
  /\ UNCHANGED <<pdfVars, prepVars, sideVars, cancelRequested>>
  /\ manual[c].pc = "saveSummary"
  /\ \/ /\ jobs' = [jobs EXCEPT ![manual[c].jobId].tailoredSummary = TRUE]
        /\ manual' = [manual EXCEPT ![c].pc = "pdf", ![c].tailoredSummary = TRUE]
     \/ /\ ProcessJobThrows(c)
        /\ UNCHANGED jobs
  /\ UNCHANGED <<isPipelineRunning, pipelineRuns, run, result, hist>>

\* lines 244-248: generatePdf returns a result, which is not tested
ProcessJobPdf(c) ==
  /\ UNCHANGED <<pipeVars, pdfVars, prepVars, sideVars, cancelRequested>>
  /\ manual[c].pc = "pdf"
  /\ \E ok \in BOOLEAN : manual' = [manual EXCEPT ![c].pc = "ready", ![c].pdfOk = ok]

\* lines 251-257: updateJob(status: ready, pdfPath) and the success result
ProcessJobMarkReady(c) ==
  /\ UNCHANGED <<pdfVars, prepVars, sideVars, cancelRequested>>
  /\ manual[c].pc = "ready"
  /\ \/ /\ jobs' = [jobs EXCEPT ![manual[c].jobId].status = "ready",
                                ![manual[c].jobId].pdfPath =
                                   IF manual[c].pdfOk THEN PdfPathOf(manual[c].jobId)
                                   ELSE NullPath]
        /\ manual' = [manual EXCEPT ![c].pc = "returned", ![c].markedReady = TRUE,
                                    ![c].success = TRUE]
     \/ /\ ProcessJobThrows(c)
        /\ UNCHANGED jobs
  /\ UNCHANGED <<isPipelineRunning, pipelineRuns, run, result, hist>>

NextManual ==
  \E c \in ManualCalls :
     \/ ProcessJobGet(c)
     \/ ProcessJobMarkProcessing(c)
     \/ ProcessJobSummary(c)
     \/ ProcessJobSaveSummary(c)
     \/ ProcessJobPdf(c)
     \/ ProcessJobMarkReady(c)

\* the jobs a store may hold when a job is processed by hand: of any status,
\* the ready and applied ones with their PDF
StoredJobs(j) ==
  {AbsentJob} \cup
  {[exists |-> TRUE, status |-> st, suitabilityScore |-> NoScore, tailoredSummary |-> ts,
    pdfPath |-> NullPath] : st \in JobStatuses \ {"ready", "applied"}, ts \in BOOLEAN} \cup
  {[exists |-> TRUE, status |-> st, suitabilityScore |-> NoScore, tailoredSummary |-> TRUE,
    pdfPath |-> PdfPathOf(j)] : st \in {"ready", "applied"}}

InitManual ==
  /\ isPipelineRunning = FALSE
  /\ pipelineRuns = <<>>
  /\ jobs \in {store \in [JobIds -> UNION {StoredJobs(j) : j \in JobIds}] :
                 \A j \in JobIds : store[j] \in StoredJobs(j)}
  /\ run = [p \in Callers |-> IdleRun]
  /\ result = [p \in Callers |-> NoResult]
  /\ hist = [p \in Callers |-> NoHist]
  /\ QuietManual

----------------------------------------------------------------------------
(* generatePdf: import -> export -> download -> delete *)

NoResume == 0

IdlePdf ==
  [pc |-> "idle", jobId |-> NoJob, resumeId |-> NoResume, failed |-> FALSE,
   imported |-> NoResume, downloaded |-> FALSE, firstDeleteFailed |-> FALSE,
   cleanupFailed |-> FALSE, prepareFailed |-> FALSE, requests |-> {}]

NoPdfResult ==
  [returned |-> FALSE, success |-> FALSE, pdfPath |-> NullPath, hasError |-> FALSE]

\* line 161 and lines 162-166: the two ways generatePdf returns
\* (hasError: the result carries an error message)
PdfSuccess(c) ==
  [returned |-> TRUE, success |-> TRUE, pdfPath |-> PdfPathOf(pdf[c].jobId),
   hasError |-> FALSE]
PdfFailure ==
  [returned |-> TRUE, success |-> FALSE, pdfPath |-> NullPath, hasError |-> TRUE]

InitPdf ==
  /\ remoteResumes = {}
  /\ nextResumeId = 1
  /\ localPdfs = {}
  /\ pdf = [c \in PdfCalls |-> IdlePdf]
  /\ pdfResult = [c \in PdfCalls |-> NoPdfResult]
  /\ deletesIssued = {}

\* a plausible bug: the preparation is outside the try block, what it throws
\* leaves generatePdf
PdfPrepareMutant(c) ==
  /\ UNCHANGED <<pipeVars, prepVars, sideVars, manual, cancelRequested>>
  /\ pdf[c].pc = "idle"
  /\ \E j \in JobIds :
        \/ pdf' = [pdf EXCEPT ![c].pc = "import", ![c].jobId = j]
        \/ pdf' = [pdf EXCEPT ![c].pc = "rejected", ![c].jobId = j,
                              ![c].prepareFailed = TRUE]
  /\ UNCHANGED <<remoteResumes, nextResumeId, localPdfs, pdfResult, deletesIssued>>

\* lines 84-124: output directory, configured base resume id, getResume and
\* prepareTailoredResumeForPdf; the id may be missing, the base document
\* empty, and any of the calls may throw (schema validation and tailoring
\* failures included), which the outer catch turns into a failure result
PdfPrepare(c) ==
  /\ UNCHANGED <<pipeVars, prepVars, sideVars, manual, cancelRequested>>
  /\ pdf[c].pc = "idle"
  /\ \E j \in JobIds :
        \/ /\ pdf' = [pdf EXCEPT ![c].pc = "import", ![c].jobId = j]
           /\ UNCHANGED pdfResult
        \/ /\ pdf' = [pdf EXCEPT ![c].pc = "returned", ![c].jobId = j,
                                 ![c].prepareFailed = TRUE]
           /\ pdfResult' = [pdfResult EXCEPT ![c] = PdfFailure]
  /\ UNCHANGED <<remoteResumes, nextResumeId, localPdfs, deletesIssued>>

\* lines 129-134: importResume; when it throws resumeId is still null, the
\* finally block sends nothing
PdfImport(c) ==
  /\ UNCHANGED <<pipeVars, prepVars, sideVars, manual, cancelRequested>>
  /\ pdf[c].pc = "import"
  /\ \/ /\ remoteResumes' = remoteResumes \cup {nextResumeId}
        /\ nextResumeId' = nextResumeId + 1
        /\ pdf' = [pdf EXCEPT ![c].pc = "export", ![c].resumeId = nextResumeId,
                              ![c].imported = nextResumeId,
                              ![c].requests = @ \cup {"import"}]
        /\ UNCHANGED pdfResult
     \/ /\ pdf' = [pdf EXCEPT ![c].pc = "returned", ![c].requests = @ \cup {"import"}]
        /\ pdfResult' = [pdfResult EXCEPT ![c] = PdfFailure]
        /\ UNCHANGED <<remoteResumes, nextResumeId>>
  /\ UNCHANGED <<localPdfs, deletesIssued>>

\* a plausible bug: no finally block, a failing export returns at once
PdfExportMutant(c) ==
  /\ UNCHANGED <<pipeVars, prepVars, sideVars, manual, cancelRequested>>
  /\ pdf[c].pc = "export"
  /\ \/ /\ pdf' = [pdf EXCEPT ![c].pc = "download", ![c].requests = @ \cup {"export"}]
        /\ UNCHANGED pdfResult
     \/ /\ pdf' = [pdf EXCEPT ![c].pc = "returned", ![c].failed = TRUE,
                              ![c].requests = @ \cup {"export"}]
        /\ pdfResult' = [pdfResult EXCEPT ![c] = PdfFailure]
  /\ UNCHANGED <<remoteResumes, nextResumeId, localPdfs, deletesIssued>>

\* line 140: exportResumePdf; when it throws control goes to the finally block
PdfExport(c) ==
  /\ UNCHANGED <<pipeVars, prepVars, sideVars, manual, cancelRequested>>
  /\ pdf[c].pc = "export"
  /\ \/ pdf' = [pdf EXCEPT ![c].pc = "download", ![c].requests = @ \cup {"export"}]
     \/ pdf' = [pdf EXCEPT ![c].pc = "cleanup", ![c].failed = TRUE,
                           ![c].requests = @ \cup {"export"}]
  /\ UNCHANGED <<remoteResumes, nextResumeId, localPdfs, pdfResult, deletesIssued>>

\* line 143: downloadFile writes resume_<jobId>.pdf
PdfDownload(c) ==
  /\ UNCHANGED <<pipeVars, prepVars, sideVars, manual, cancelRequested>>
  /\ pdf[c].pc = "download"
  /\ \/ /\ localPdfs' = localPdfs \cup {pdf[c].jobId}
        /\ pdf' = [pdf EXCEPT ![c].pc = "delete", ![c].downloaded = TRUE]
     \/ /\ pdf' = [pdf EXCEPT ![c].pc = "cleanup", ![c].failed = TRUE]
        /\ UNCHANGED localPdfs
  /\ UNCHANGED <<remoteResumes, nextResumeId, pdfResult, deletesIssued>>

\* lines 144-145 and 160-161: the delete of the try block; when it succeeds
\* resumeId is nulled, the finally block has nothing to do and generatePdf
\* returns success; when it throws the exception is pending and control
\* goes to the finally block with resumeId still set
PdfDelete(c) ==
  /\ UNCHANGED <<pipeVars, prepVars, sideVars, manual, cancelRequested>>
  /\ pdf[c].pc = "delete"
  /\ deletesIssued' = deletesIssued \cup {pdf[c].resumeId}
  /\ \/ /\ remoteResumes' = remoteResumes \ {pdf[c].resumeId}
        /\ pdf' = [pdf EXCEPT ![c].pc = "returned", ![c].resumeId = NoResume,
                              ![c].requests = @ \cup {"delete"}]
        /\ pdfResult' = [pdfResult EXCEPT ![c] = PdfSuccess(c)]
     \/ /\ pdf' = [pdf EXCEPT ![c].pc = "cleanup", ![c].failed = TRUE,
                              ![c].firstDeleteFailed = TRUE,
                              ![c].requests = @ \cup {"delete"}]
        /\ UNCHANGED <<remoteResumes, pdfResult>>
  /\ UNCHANGED <<nextResumeId, localPdfs>>

\* lines 146-158 and 162-166: the finally block deletes the resume whose id
\* is still set, a failure of that delete is logged; the pending exception
\* then reaches the outer catch, which returns a failure result
PdfCleanup(c) ==
  /\ UNCHANGED <<pipeVars, prepVars, sideVars, manual, cancelRequested>>
  /\ pdf[c].pc = "cleanup"
  /\ deletesIssued' = deletesIssued \cup {pdf[c].resumeId}
  /\ \/ /\ remoteResumes' = remoteResumes \ {pdf[c].resumeId}
        /\ pdf' = [pdf EXCEPT ![c].pc = "returned", ![c].requests = @ \cup {"delete"}]
     \/ /\ pdf' = [pdf EXCEPT ![c].pc = "returned", ![c].cleanupFailed = TRUE,
                              ![c].requests = @ \cup {"delete"}]
        /\ UNCHANGED remoteResumes
  /\ pdfResult' = [pdfResult EXCEPT ![c] = PdfFailure]
  /\ UNCHANGED <<nextResumeId, localPdfs>>

NextPdf ==
  \E c \in PdfCalls :
     \/ PdfPrepare(c)
     \/ PdfImport(c)
     \/ PdfExport(c)
     \/ PdfDownload(c)
     \/ PdfDelete(c)
     \/ PdfCleanup(c)

----------------------------------------------------------------------------
(* Resume documents: a JSON object is a function from its field names *)

Has(obj, f) == f \in DOMAIN obj

\* obj.f = v
SetField(obj, f, v) == [x \in DOMAIN obj \cup {f} |-> IF x = f THEN v ELSE obj[x]]

\* null or undefined, as a text value
Null == "<null>"

\* !value, for a string | null | undefined
IsFalsy(value) == value = Null \/ value = ""

\* array.find by the name of the item, 0 for none
FindByName(items, name) ==
  LET hits == {i \in 1..Len(items) : Has(items[i], "name") /\ items[i].name = name}
  IN IF hits = {} THEN 0 ELSE CHOOSE i \in hits : \A h \in hits : i <= h

\* createId(): the i-th id generated by the given pass over the skills
GeneratedIds ==
  << <<"gen-s1", "gen-s2", "gen-s3", "gen-s4">>,
     <<"gen-t1", "gen-t2", "gen-t3", "gen-t4">> >>
CreateId(pass, i) == GeneratedIds[pass][i]

----------------------------------------------------------------------------
(* tailoring.ts *)

\* parseTailoredSkills: null for a missing value or an empty string, else
\* the list (a JSON string is not modelled)
NoSkills == [kind |-> "null"]
EmptyStringSkills == [kind |-> "string"]
ParseTailoredSkills(skills) ==
  IF skills.kind \in {"null", "string"} THEN NoSkills ELSE skills

ApplyTailoredHeadline(mode, resumeData, headline) ==
  IF IsFalsy(headline) THEN resumeData
  ELSE IF ~Has(resumeData, "basics") THEN resumeData
  ELSE SetField(resumeData, "basics",
         SetField(SetField(resumeData.basics, "headline", headline), "label", headline))

\* the content of every modelled summary is a string, so the first v5 target
\* is taken whenever the top-level summary exists
ApplyTailoredSummary(mode, resumeData, summary) ==
  IF IsFalsy(summary) THEN resumeData
  ELSE IF mode = "v5" /\ Has(resumeData, "summary")
    THEN SetField(resumeData, "summary", SetField(resumeData.summary, "content", summary))
  ELSE IF Has(resumeData, "sections") /\ Has(resumeData.sections, "summary")
    THEN SetField(resumeData, "sections",
           SetField(resumeData.sections, "summary",
             SetField(resumeData.sections.summary, "content", summary)))
  ELSE IF Has(resumeData, "basics")
    THEN SetField(resumeData, "basics", SetField(resumeData.basics, "summary", summary))
  ELSE resumeData

SkillItems(resumeData) == resumeData.sections.skills.items

WithSkillItems(resumeData, items) ==
  SetField(resumeData, "sections",
    SetField(resumeData.sections, "skills",
      SetField(resumeData.sections.skills, "items", items)))

SanitizeV4Skill(skill, i) ==
  LET withId == SetField(skill, "id",
                  IF Has(skill, "id") /\ skill.id # "" THEN skill.id ELSE CreateId(1, i))
      withVisible == SetField(withId, "visible",
                  IF Has(skill, "visible") THEN skill.visible ELSE TRUE)
      withDescription == SetField(withVisible, "description",
                  IF Has(skill, "description") THEN skill.description ELSE "")
      withLevel == SetField(withDescription, "level",
                  IF Has(skill, "level") THEN skill.level ELSE 1)
  IN SetField(withLevel, "keywords",
                  IF Has(skill, "keywords") THEN skill.keywords ELSE <<>>)

SanitizeV4SkillsSection(resumeData) ==
  WithSkillItems(resumeData, [i \in 1..Len(SkillItems(resumeData)) |-> SanitizeV4Skill(SkillItems(resumeData)[i], i)])

\* the tailored entries carry a name and keywords only
ApplyTailoredSkillsV4(resumeData, skills) ==
  LET sanitized == SanitizeV4SkillsSection(resumeData)
      existing == SkillItems(sanitized)
      Tailor(newSkill, i) ==
        LET m == FindByName(existing, newSkill.name)
        IN [id |-> IF m # 0 /\ existing[m].id # "" THEN existing[m].id ELSE CreateId(2, i),
            visible |-> IF m # 0 THEN existing[m].visible ELSE TRUE,
            name |-> newSkill.name,
            description |-> IF m # 0 THEN existing[m].description ELSE "",
            level |-> IF m # 0 THEN existing[m].level ELSE 0,
            keywords |-> newSkill.keywords]
  IN WithSkillItems(sanitized, [i \in 1..Len(skills) |-> Tailor(skills[i], i)])

ApplyTailoredSkillsV5(resumeData, skills) ==
  LET existing == SkillItems(resumeData)
      Tailor(newSkill, i) ==
        LET m == FindByName(existing, newSkill.name)
            match == IF m # 0 THEN existing[m] ELSE existing[1]
            withId == IF Has(match, "id")
                      THEN SetField(match, "id",
                             IF match.id # "" THEN match.id ELSE CreateId(2, i))
                      ELSE match
            withName == IF Has(match, "name")
                        THEN SetField(withId, "name", newSkill.name) ELSE withId
        IN IF Has(match, "keywords")
           THEN SetField(withName, "keywords", newSkill.keywords) ELSE withName
  IN IF existing = <<>> THEN resumeData
     ELSE WithSkillItems(resumeData, [i \in 1..Len(skills) |-> Tailor(skills[i], i)])

ApplyTailoredSkills(mode, resumeData, tailoredSkills) ==
  LET parsed == ParseTailoredSkills(tailoredSkills)
  IN IF parsed = NoSkills
       THEN IF mode = "v4" THEN SanitizeV4SkillsSection(resumeData) ELSE resumeData
     ELSE IF mode = "v4" THEN ApplyTailoredSkillsV4(resumeData, parsed.items)
     ELSE ApplyTailoredSkillsV5(resumeData, parsed.items)

ApplyTailoredChunks(mode, resumeData, tailoredContent) ==
  ApplyTailoredHeadline(mode,
    ApplyTailoredSummary(mode,
      ApplyTailoredSkills(mode, resumeData, tailoredContent.skills),
      tailoredContent.summary),
    tailoredContent.headline)

ProjectItems(resumeData) == resumeData.sections.projects.items

\* extractProjectsFromResume: the ids of the catalog, in the order of the items
CatalogIds(resumeData) ==
  LET items == ProjectItems(resumeData)
      ids == [i \in 1..Len(items) |-> IF Has(items[i], "id") THEN items[i].id ELSE ""]
  IN SelectSeq(ids, LAMBDA id : id # "")

\* the v5 flag written with the v4 meaning
ApplyProjectVisibilityMutant(mode, resumeData, selectedProjectIds, forceVisibleProjectsSection) ==
  LET section == resumeData.sections.projects
      Flip(item, i) ==
        LET id == IF Has(item, "id") THEN item.id ELSE ""
        IN IF id = "" THEN item
           ELSE IF mode = "v5" /\ Has(item, "hidden")
             THEN SetField(item, "hidden", id \in selectedProjectIds)
           ELSE SetField(item, "visible", id \in selectedProjectIds)
  IN SetField(resumeData, "sections",
       SetField(resumeData.sections, "projects",
         SetField(section, "items", [i \in 1..Len(section.items) |-> Flip(section.items[i], i)])))

ApplyProjectVisibility(mode, resumeData, selectedProjectIds, forceVisibleProjectsSection) ==
  LET section == resumeData.sections.projects
      Flip(item, i) ==
        LET id == IF Has(item, "id") THEN item.id ELSE ""
        IN IF id = "" THEN item
           ELSE IF mode = "v5"
             THEN IF Has(item, "hidden")
                    THEN SetField(item, "hidden", id \notin selectedProjectIds)
                  ELSE IF Has(item, "visible")
                    THEN SetField(item, "visible", id \in selectedProjectIds)
                  ELSE item
           ELSE SetField(item, "visible", id \in selectedProjectIds)
      flipped == SetField(section, "items", [i \in 1..Len(section.items) |-> Flip(section.items[i], i)])
      forced ==
        IF ~forceVisibleProjectsSection THEN flipped
        ELSE IF mode = "v5"
          THEN IF Has(flipped, "hidden") THEN SetField(flipped, "hidden", FALSE)
               ELSE IF Has(flipped, "visible") THEN SetField(flipped, "visible", TRUE)
               ELSE flipped
        ELSE SetField(flipped, "visible", TRUE)
  IN SetField(resumeData, "sections", SetField(resumeData.sections, "projects", forced))

----------------------------------------------------------------------------
(* prepareTailoredResumeForPdf *)

Modes == {"v4", "v5"}

\* cloneResumeData: a structural copy; the documents hold JSON values only,
\* so nothing is dropped by the round trip through JSON text
CloneResumeData(data) == data

NullIds == [kind |-> "null"]

\* parseSelectedProjectIds: the pieces between the commas, the empty ones dropped
ParseSelectedProjectIds(selectedProjectIds) ==
  IF selectedProjectIds = NullIds THEN <<>>
  ELSE SelectSeq(selectedProjectIds.parts, LAMBDA part : part # "")

\* resolveResumeProjectsSettings: settings over the ids of the catalog, with
\* lockedProjectIds.length <= maxProjects
ResolveResumeProjectsSettings(catalogIds) ==
  LET ids == SeqToSet(catalogIds)
      lockedLists == UNION {[1..n -> ids] : n \in 0..Cardinality(ids)}
      deduplicated == {l \in lockedLists : \A i, j \in 1..Len(l) : l[i] = l[j] => i = j}
  IN {rp \in [lockedProjectIds : deduplicated, aiSelectableProjectIds : SUBSET ids,
              maxProjects : 0..MaxMaxProjects] :
        Len(rp.lockedProjectIds) <= rp.maxProjects}

DesiredCountMutant(resumeProjects) == resumeProjects.maxProjects

DesiredCount(resumeProjects) ==
  IF resumeProjects.maxProjects - Len(resumeProjects.lockedProjectIds) > 0
    THEN resumeProjects.maxProjects - Len(resumeProjects.lockedProjectIds)
  ELSE 0

EligibleProjects(catalogIds, resumeProjects) ==
  SelectSeq(catalogIds, LAMBDA id : id \in resumeProjects.aiSelectableProjectIds)

\* pickProjectIdsForJob: at most desiredCount ids, each one of those offered
PickProjectIdsForJob(eligibleProjects, desiredCount) ==
  UNION {[1..n -> SeqToSet(eligibleProjects)] : n \in 0..desiredCount}

NoDocument == [none |-> TRUE]
NoArgs == [none |-> TRUE]
NoSelection ==
  [automatic |-> FALSE,
   resumeProjects |-> [lockedProjectIds |-> <<>>, aiSelectableProjectIds |-> {},
                       maxProjects |-> 0],
   eligibleProjects |-> <<>>, desiredCount |-> 0, picked |-> <<>>, selectedIds |-> <<>>]

QuietPrep ==
  /\ prepArgs = NoArgs
  /\ prepPc = "idle"
  /\ workingCopy = NoDocument
  /\ selection = NoSelection

\* lines 496-513: validate, clone, apply the tailored chunks
PrepTailor ==
  /\ UNCHANGED <<pipeVars, pdfVars, sideVars, manual, cancelRequested>>
  /\ prepPc = "called"
  /\ workingCopy' = ApplyTailoredChunks(prepArgs.mode, CloneResumeData(prepArgs.resumeData),
                                        prepArgs.tailoredContent)
  /\ prepPc' = "tailored"
  /\ UNCHANGED <<prepArgs, selection>>

\* lines 515-520, an explicit selectedProjectIds
PrepSelectExplicit ==
  /\ UNCHANGED <<pipeVars, pdfVars, sideVars, manual, cancelRequested>>
  /\ prepPc = "tailored"
  /\ prepArgs.selectedProjectIds # NullIds
  /\ selection' = [NoSelection EXCEPT
                     !.selectedIds = ParseSelectedProjectIds(prepArgs.selectedProjectIds)]
  /\ prepPc' = "selected"
  /\ UNCHANGED <<prepArgs, workingCopy>>

\* lines 517-542, automatic selection
PrepSelectAutomatic ==
  /\ UNCHANGED <<pipeVars, pdfVars, sideVars, manual, cancelRequested>>
  /\ prepPc = "tailored"
  /\ prepArgs.selectedProjectIds = NullIds
  /\ \E resumeProjects \in ResolveResumeProjectsSettings(CatalogIds(workingCopy)) :
       LET locked == resumeProjects.lockedProjectIds
           desiredCount == DesiredCount(resumeProjects)
           eligibleProjects == EligibleProjects(CatalogIds(workingCopy), resumeProjects)
       IN \E picked \in PickProjectIdsForJob(eligibleProjects, desiredCount) :
            selection' = [automatic |-> TRUE, resumeProjects |-> resumeProjects,
                          eligibleProjects |-> eligibleProjects,
                          desiredCount |-> desiredCount, picked |-> picked,
                          selectedIds |-> locked \o picked]
  /\ prepPc' = "selected"
  /\ UNCHANGED <<prepArgs, workingCopy>>

\* lines 544-580, tracer links disabled
PrepApplyVisibility ==
  /\ UNCHANGED <<pipeVars, pdfVars, sideVars, manual, cancelRequested>>
  /\ prepPc = "selected"
  /\ workingCopy' = ApplyProjectVisibility(prepArgs.mode, workingCopy,
                                           SeqToSet(selection.selectedIds),
                                           prepArgs.forceVisibleProjectsSection)
  /\ prepPc' = "returned"
  /\ UNCHANGED <<prepArgs, selection>>

NextPrep ==
  \/ PrepTailor
  \/ PrepSelectExplicit
  \/ PrepSelectAutomatic
  \/ PrepApplyVisibility

----------------------------------------------------------------------------
(* Job repository: createJob and bulkCreateJobs on the rows of the table *)

Urls == 1..NumUrls
Titles == {"t1", "t2"}

\* CreateJobInput: the posting URL and the fields copied into the row
CreateJobInputs == [jobUrl : Urls, title : Titles]

NoRow == [id |-> 0, jobUrl |-> 0, title |-> "", status |-> "none"]

\* getJobByUrl: the first row with the URL, NoRow for null
GetJobByUrl(rows, jobUrl) ==
  LET hits == {i \in 1..Len(rows) : rows[i].jobUrl = jobUrl}
  IN IF hits = {} THEN NoRow ELSE rows[CHOOSE i \in hits : \A h \in hits : i <= h]

\* createJob without the look-up of the URL
CreateJobMutant(rows, input) ==
  LET row == [id |-> Len(rows) + 1, jobUrl |-> input.jobUrl, title |-> input.title,
              status |-> "discovered"]
  IN [rows |-> Append(rows, row), job |-> row]

\* createJob: the existing row of the URL, or a new `discovered` row with a
\* fresh id; the rows afterwards and the job returned
CreateJob(rows, input) ==
  LET existing == GetJobByUrl(rows, input.jobUrl)
      row == [id |-> Len(rows) + 1, jobUrl |-> input.jobUrl, title |-> input.title,
              status |-> "discovered"]
  IN IF existing # NoRow THEN [rows |-> rows, job |-> existing]
     ELSE [rows |-> Append(rows, row), job |-> row]

\* bulkCreateJobs: the loop over the inputs, with its two counters
RECURSIVE BulkCreate(_, _, _, _)
BulkCreate(rows, inputs, created, skipped) ==
  IF inputs = <<>> THEN [rows |-> rows, created |-> created, skipped |-> skipped]
  ELSE IF GetJobByUrl(rows, Head(inputs).jobUrl) # NoRow
    THEN BulkCreate(rows, Tail(inputs), created, skipped + 1)
  ELSE BulkCreate(CreateJob(rows, Head(inputs)).rows, Tail(inputs), created + 1, skipped)

NoRepoCall ==
  [op |-> "none", inputs |-> <<>>, before |-> <<>>, job |-> NoRow,
   created |-> 0, skipped |-> 0]

RaceCallers == {1, 2}

NoInput == [jobUrl |-> 0, title |-> ""]

\* a repository call that has not started
IdleRace ==
  [op |-> "none", pc |-> "idle", input |-> NoInput, remaining |-> 0,
   created |-> 0, skipped |-> 0, job |-> NoRow, countedExisting |-> FALSE]

InitRepo ==
  /\ jobRows = <<>>
  /\ repoCall = NoRepoCall
  /\ repoRace = [c \in RaceCallers |-> IdleRace]

QuietRepo == InitRepo

CreateJobCall ==
  /\ UNCHANGED <<pipeVars, pdfVars, prepVars, progressVars, rx, svcVars, manual, cancelRequested>>
  /\ \E input \in CreateJobInputs :
       LET done == CreateJob(jobRows, input)
       IN /\ jobRows' = done.rows
          /\ repoCall' = [NoRepoCall EXCEPT !.op = "createJob", !.inputs = <<input>>,
                                            !.before = jobRows, !.job = done.job]
  /\ UNCHANGED repoRace

BulkCreateJobsCall ==
  /\ UNCHANGED <<pipeVars, pdfVars, prepVars, progressVars, rx, svcVars, manual, cancelRequested>>
  /\ \E inputs \in UNION {[1..n -> CreateJobInputs] : n \in 0..MaxBulkInputs} :
       LET done == BulkCreate(jobRows, inputs, 0, 0)
       IN /\ jobRows' = done.rows
          /\ repoCall' = [NoRepoCall EXCEPT !.op = "bulkCreateJobs", !.inputs = inputs,
                                            !.before = jobRows, !.created = done.created,
                                            !.skipped = done.skipped]
  /\ UNCHANGED repoRace

NextRepo ==
  \/ CreateJobCall
  \/ BulkCreateJobsCall

(* Two repository calls in flight: every await of createJob and
   bulkCreateJobs is a point where the other call may run *)

\* line 43: createJob is called with an input
RaceCreateJobStart(c) ==
  /\ UNCHANGED <<pipeVars, pdfVars, prepVars, progressVars, rx, svcVars, manual, cancelRequested>>
  /\ repoRace[c].pc = "idle"
  /\ \E input \in CreateJobInputs :
       repoRace' = [repoRace EXCEPT ![c].op = "createJob", ![c].pc = "lookup",
                                    ![c].input = input]
  /\ UNCHANGED <<jobRows, repoCall>>

\* lines 97-99: bulkCreateJobs is called with a list of inputs, which the
\* loop reveals one at a time
RaceBulkStart(c) ==
  /\ UNCHANGED <<pipeVars, pdfVars, prepVars, progressVars, rx, svcVars, manual, cancelRequested>>
  /\ repoRace[c].pc = "idle"
  /\ \E n \in 0..MaxBulkInputs :
       repoRace' = [repoRace EXCEPT ![c].op = "bulkCreateJobs", ![c].pc = "loop",
                                    ![c].remaining = n]
  /\ UNCHANGED <<jobRows, repoCall>>

\* lines 101-106: the next input of the loop and its look-up; an input whose
\* URL is stored is counted as skipped
RaceBulkLookup(c) ==
  /\ UNCHANGED <<pipeVars, pdfVars, prepVars, progressVars, rx, svcVars, manual, cancelRequested>>
  /\ repoRace[c].pc = "loop"
  /\ repoRace[c].remaining > 0
  /\ \E input \in CreateJobInputs :
       IF GetJobByUrl(jobRows, input.jobUrl) # NoRow
       THEN repoRace' = [repoRace EXCEPT ![c].remaining = @ - 1, ![c].skipped = @ + 1,
                                         ![c].input = NoInput]
       ELSE repoRace' = [repoRace EXCEPT ![c].remaining = @ - 1, ![c].pc = "lookup",
                                         ![c].input = input]
  /\ UNCHANGED <<jobRows, repoCall>>

\* line 112: the loop is over, the counters are returned
RaceBulkReturn(c) ==
  /\ UNCHANGED <<pipeVars, pdfVars, prepVars, progressVars, rx, svcVars, manual, cancelRequested>>
  /\ repoRace[c].pc = "loop"
  /\ repoRace[c].remaining = 0
  /\ repoRace' = [repoRace EXCEPT ![c].pc = "done"]
  /\ UNCHANGED <<jobRows, repoCall>>

\* lines 45-48: the look-up of createJob; an existing row is returned, and
\* bulkCreateJobs (lines 108-109) counts whatever createJob returns as created
RaceLookup(c) ==
  /\ UNCHANGED <<pipeVars, pdfVars, prepVars, progressVars, rx, svcVars, manual, cancelRequested>>
  /\ repoRace[c].pc = "lookup"
  /\ LET existing == GetJobByUrl(jobRows, repoRace[c].input.jobUrl)
     IN IF existing = NoRow
        THEN repoRace' = [repoRace EXCEPT ![c].pc = "insert"]
        ELSE IF repoRace[c].op = "createJob"
        THEN repoRace' = [repoRace EXCEPT ![c].pc = "done", ![c].job = existing]
        ELSE repoRace' = [repoRace EXCEPT ![c].pc = "loop", ![c].created = @ + 1,
                                          ![c].countedExisting = TRUE,
                                          ![c].input = NoInput]
  /\ UNCHANGED <<jobRows, repoCall>>

\* lines 50-73: the insert and the read of the new row; job_url is declared
\* unique (schema.ts line 16), so the insert of a URL that is stored by now
\* throws and the call rejects
RaceInsert(c) ==
  /\ UNCHANGED <<pipeVars, pdfVars, prepVars, progressVars, rx, svcVars, manual, cancelRequested>>
  /\ repoRace[c].pc = "insert"
  /\ LET input == repoRace[c].input
         row == [id |-> Len(jobRows) + 1, jobUrl |-> input.jobUrl,
                 title |-> input.title, status |-> "discovered"]
     IN IF GetJobByUrl(jobRows, input.jobUrl) # NoRow
        THEN /\ repoRace' = [repoRace EXCEPT ![c].pc = "failed"]
             /\ UNCHANGED jobRows
        ELSE /\ jobRows' = Append(jobRows, row)
             /\ IF repoRace[c].op = "createJob"
                THEN repoRace' = [repoRace EXCEPT ![c].pc = "done", ![c].job = row]
                ELSE repoRace' = [repoRace EXCEPT ![c].pc = "loop", ![c].created = @ + 1,
                                                  ![c].input = NoInput]
  /\ UNCHANGED repoCall

NextRepoRace ==
  \E c \in RaceCallers :
     \/ RaceCreateJobStart(c)
     \/ RaceBulkStart(c)
     \/ RaceBulkLookup(c)
     \/ RaceBulkReturn(c)
     \/ RaceLookup(c)
     \/ RaceInsert(c)

----------------------------------------------------------------------------
(* progress.ts: the cached snapshot and its listeners *)

Listeners == 1..NumListeners

\* the fields of PipelineProgress that are modelled: two required ones and
\* an optional one
ProgressFields == {"step", "jobsScored", "detail"}

\* lines 36-43 and 86-95
IdleProgress == [step |-> "idle", jobsScored |-> 0]

\* Partial<PipelineProgress>: any subset of the fields
ProgressUpdates ==
  {[f \in D |-> IF f = "step" THEN st ELSE IF f = "jobsScored" THEN 1 ELSE "d"] :
     D \in SUBSET ProgressFields, st \in {"crawling"}}

\* the cache replaced by the update
MergeProgressMutant(current, update) == update

\* line 49: { ...currentProgress, ...update }
MergeProgress(current, update) ==
  [f \in DOMAIN current \cup DOMAIN update |->
     IF f \in DOMAIN update THEN update[f] ELSE current[f]]

NothingDelivered == [l \in Listeners |-> <<>>]

\* the loop without its try/catch: the first listener that throws ends it
RECURSIVE NotifyListenersMutant(_, _, _, _)
NotifyListenersMutant(ls, snapshot, throwing, delivered) ==
  IF ls = <<>> THEN [delivered |-> delivered, thrown |-> FALSE]
  ELSE IF Head(ls) \in throwing
    THEN [delivered |-> [delivered EXCEPT ![Head(ls)] = Append(@, snapshot)],
          thrown |-> TRUE]
  ELSE NotifyListenersMutant(Tail(ls), snapshot, throwing,
                             [delivered EXCEPT ![Head(ls)] = Append(@, snapshot)])

\* lines 52-58: every listener is called in the order of the set, what a
\* listener throws is caught and logged
RECURSIVE NotifyListeners(_, _, _, _)
NotifyListeners(ls, snapshot, throwing, delivered) ==
  IF ls = <<>> THEN [delivered |-> delivered, thrown |-> FALSE]
  ELSE NotifyListeners(Tail(ls), snapshot, throwing,
                       [delivered EXCEPT ![Head(ls)] = Append(@, snapshot)])

NoSubscription == [handle |-> FALSE, state |-> "none"]

\* a listener that is not subscribed has no last snapshot
NoSnapshot == [step |-> "none"]

\* the snapshots the listeners of ls were last called with, after a delivery
\* of snapshot to each of them
DeliveredTo(ls, snapshot) ==
  [l \in Listeners |-> IF l \in SeqToSet(ls) THEN snapshot ELSE lastDelivered[l]]

NoOp ==
  [kind |-> "none", listener |-> 0, update |-> IdleProgress, cacheBefore |-> IdleProgress,
   listenersBefore |-> <<>>, throwing |-> {}, delivered |-> NothingDelivered,
   thrown |-> FALSE]

InitProgress ==
  /\ currentProgress = IdleProgress
  /\ listeners = <<>>
  /\ subscriptions = [l \in Listeners |-> NoSubscription]
  /\ lastOp = NoOp
  /\ lastDelivered = [l \in Listeners |-> NoSnapshot]

QuietProgress == InitProgress

\* lines 48-59
UpdateProgress ==
  /\ UNCHANGED <<pipeVars, pdfVars, prepVars, repoVars, rx, svcVars, manual, cancelRequested>>
  /\ \E update \in ProgressUpdates, throwing \in SUBSET SeqToSet(listeners) :
       LET merged == MergeProgress(currentProgress, update)
           notified == NotifyListeners(listeners, merged, throwing, NothingDelivered)
       IN /\ currentProgress' = merged
          /\ lastOp' = [kind |-> "update", listener |-> 0, update |-> update,
                        cacheBefore |-> currentProgress, listenersBefore |-> listeners,
                        throwing |-> throwing, delivered |-> notified.delivered,
                        thrown |-> notified.thrown]
          /\ lastDelivered' = DeliveredTo(listeners, merged)
  /\ UNCHANGED <<listeners, subscriptions>>

\* subscribeToProgress without the immediate delivery
SubscribeToProgressMutant(l) ==
  /\ UNCHANGED <<pipeVars, pdfVars, prepVars, repoVars, rx, svcVars, manual, cancelRequested>>
  /\ listeners' = IF l \in SeqToSet(listeners) THEN listeners ELSE Append(listeners, l)
  /\ subscriptions' = [subscriptions EXCEPT ![l] = [handle |-> TRUE, state |-> "active"]]
  /\ lastOp' = [NoOp EXCEPT !.kind = "subscribe", !.listener = l,
                            !.cacheBefore = currentProgress,
                            !.listenersBefore = listeners]
  /\ UNCHANGED <<currentProgress, lastDelivered>>

\* lines 71-81: the listener is added and called with the cache; when it
\* throws, subscribeToProgress throws and returns no handle
SubscribeToProgress(l) ==
  /\ UNCHANGED <<pipeVars, pdfVars, prepVars, repoVars, rx, svcVars, manual, cancelRequested>>
  /\ listeners' = IF l \in SeqToSet(listeners) THEN listeners ELSE Append(listeners, l)
  /\ \E throws \in BOOLEAN :
       /\ subscriptions' = [subscriptions EXCEPT ![l] =
             [handle |-> IF throws THEN @.handle ELSE TRUE, state |-> "active"]]
       /\ lastOp' = [NoOp EXCEPT !.kind = "subscribe", !.listener = l,
                                 !.cacheBefore = currentProgress,
                                 !.listenersBefore = listeners,
                                 !.throwing = IF throws THEN {l} ELSE {},
                                 !.thrown = throws,
                                 !.delivered = [NothingDelivered EXCEPT ![l] = <<currentProgress>>]]
  /\ lastDelivered' = DeliveredTo(<<l>>, currentProgress)
  /\ UNCHANGED currentProgress

\* lines 78-80: the unsubscribe handle deletes the listener from the set
Unsubscribe(l) ==
  /\ UNCHANGED <<pipeVars, pdfVars, prepVars, repoVars, rx, svcVars, manual, cancelRequested>>
  /\ subscriptions[l].handle
  /\ listeners' = SelectSeq(listeners, LAMBDA k : k # l)
  /\ subscriptions' = [subscriptions EXCEPT ![l].state = "ended"]
  /\ lastOp' = [NoOp EXCEPT !.kind = "unsubscribe", !.listener = l,
                            !.cacheBefore = currentProgress,
                            !.listenersBefore = listeners]
  /\ lastDelivered' = [lastDelivered EXCEPT ![l] = NoSnapshot]
  /\ UNCHANGED currentProgress

\* lines 86-95: resetProgress, nobody is notified
ResetProgress ==
  /\ UNCHANGED <<pipeVars, pdfVars, prepVars, repoVars, rx, svcVars, manual, cancelRequested>>
  /\ currentProgress' = IdleProgress
  /\ lastOp' = [NoOp EXCEPT !.kind = "reset", !.cacheBefore = currentProgress,
                            !.listenersBefore = listeners]
  /\ UNCHANGED <<listeners, subscriptions, lastDelivered>>

NextProgress ==
  \/ UpdateProgress
  \/ ResetProgress
  \/ \E l \in Listeners : SubscribeToProgress(l) \/ Unsubscribe(l)

----------------------------------------------------------------------------
(* The Reactive Resume adapter: one operation, run in its resolved mode *)

RxOperations ==
  {"listResumes", "getResume", "importResume", "deleteResume", "exportResumePdf",
   "validateCredentials"}

OtherMode(mode) == IF mode = "v5" THEN "v4" ELSE "v5"

IdleRx ==
  [pc |-> "idle", op |-> "none", mode |-> "v5", available |-> [v4 |-> FALSE, v5 |-> FALSE],
   calls |-> [v4 |-> 0, v5 |-> 0], clientFailed |-> FALSE, outcome |-> "none"]

InitRx == rx = IdleRx

QuietRx == InitRx

\* how a failure reaches the caller: validateCredentials returns it as a
\* result (lines 681-699), the other operations throw it (lines 346-369)
Surfaced(op) == IF op = "validateCredentials" THEN "failure" ELSE "thrown"

\* lines 339-343 and 643-647: the requested or configured mode and the
\* credentials of both modes are read
RxStart ==
  /\ UNCHANGED <<pipeVars, pdfVars, prepVars, repoVars, progressVars, svcVars, manual, cancelRequested>>
  /\ rx.pc = "idle"
  /\ \E op \in RxOperations, mode \in {"v4", "v5"}, v4Available, v5Available \in BOOLEAN :
       rx' = [IdleRx EXCEPT !.pc = "resolve", !.op = op, !.mode = mode,
                            !.available = [v4 |-> v4Available, v5 |-> v5Available]]

\* lines 345-351, 359-364 and 307-325: without the credentials of the mode
\* the operation fails before any client is called
RxResolve ==
  /\ UNCHANGED <<pipeVars, pdfVars, prepVars, repoVars, progressVars, svcVars, manual, cancelRequested>>
  /\ rx.pc = "resolve"
  /\ rx' = IF rx.available[rx.mode] THEN [rx EXCEPT !.pc = "client"]
           ELSE [rx EXCEPT !.pc = "returned", !.outcome = Surfaced(rx.op)]

\* a failing client answered by the client of the other mode
RxClientMutant ==
  /\ UNCHANGED <<pipeVars, pdfVars, prepVars, repoVars, progressVars, svcVars, manual, cancelRequested>>
  /\ rx.pc = "client"
  /\ \/ rx' = [rx EXCEPT !.pc = "returned", !.calls[rx.mode] = @ + 1, !.outcome = "value"]
     \/ rx' = [rx EXCEPT !.pc = "returned", !.calls[rx.mode] = @ + 1,
                         !.calls[OtherMode(rx.mode)] =
                            IF rx.available[OtherMode(rx.mode)] THEN @ + 1 ELSE @,
                         !.clientFailed = TRUE,
                         !.outcome = IF rx.available[OtherMode(rx.mode)] THEN "value"
                                     ELSE Surfaced(rx.op)]

\* lines 352-356, 365-369 and 675-680: the client of the mode is called; its
\* failure is normalised and thrown, or returned by validateCredentials
RxClient ==
  /\ UNCHANGED <<pipeVars, pdfVars, prepVars, repoVars, progressVars, svcVars, manual, cancelRequested>>
  /\ rx.pc = "client"
  /\ \/ rx' = [rx EXCEPT !.pc = "returned", !.calls[rx.mode] = @ + 1, !.outcome = "value"]
     \/ rx' = [rx EXCEPT !.pc = "returned", !.calls[rx.mode] = @ + 1,
                         !.clientFailed = TRUE, !.outcome = Surfaced(rx.op)]

NextRx ==
  \/ RxStart
  \/ RxResolve
  \/ RxClient

----------------------------------------------------------------------------
(* services/profile.ts: the cached base resume profile *)

\* the getProfile calls that may be in flight together; a call that has
\* ended is followed by a later call
ProfileCalls == 1..NumProfileCalls
BaseResumeIds == 1..NumBaseResumes
\* no id is configured
NoBaseResume == 0
\* the remote content of the resumes is one of two versions
ResumeVersions == {1, 2}

\* null, and the data of a resume as getResume returns it
NoProfile == [resume |-> 0, version |-> 0]
ProfileOf(version, id) == [resume |-> id, version |-> version]

\* a call that has not started; the locals of a call are dropped when it ends
IdleProfileCall ==
  [pc |-> "idle", forceRefresh |-> FALSE, id |-> NoBaseResume, fetches |-> 0,
   result |-> NoProfile]

\* nothing happened to the cache yet
NothingLoaded == [kind |-> "none", id |-> NoBaseResume, profile |-> NoProfile]

\* lines 6-7: nothing is cached; no call was made.  (last: the last thing
\* that happened to the cache, a successful load or a clear)
InitProfile ==
  profile = [cachedProfile |-> NoProfile, cachedResumeId |-> NoBaseResume,
             configured |-> NoBaseResume, remote |-> 1,
             calls |-> [c \in ProfileCalls |-> IdleProfileCall],
             last |-> NothingLoaded]

QuietProfile == InitProfile

\* the settings change the configured base resume id
SetBaseResumeId ==
  /\ UNCHANGED <<pipeVars, pdfVars, prepVars, repoVars, progressVars, rx, manual,
                 cancelRequested, keyRun>>
  /\ \E id \in {NoBaseResume} \cup BaseResumeIds :
       /\ id # profile.configured
       /\ profile' = [profile EXCEPT !.configured = id]

\* the resumes are edited in the remote store
RemoteEdit ==
  /\ UNCHANGED <<pipeVars, pdfVars, prepVars, repoVars, progressVars, rx, manual,
                 cancelRequested, keyRun>>
  /\ \E v \in ResumeVersions :
       /\ v # profile.remote
       /\ profile' = [profile EXCEPT !.remote = v]

\* lines 76-79
ClearProfileCache ==
  /\ UNCHANGED <<pipeVars, pdfVars, prepVars, repoVars, progressVars, rx, manual,
                 cancelRequested, keyRun>>
  /\ profile' = [profile EXCEPT !.cachedProfile = NoProfile,
                                !.cachedResumeId = NoBaseResume,
                                !.last = [NothingLoaded EXCEPT !.kind = "cleared"]]

\* lines 18-20: a call is made and reads the configured id
GetProfileStart(c) ==
  /\ UNCHANGED <<pipeVars, pdfVars, prepVars, repoVars, progressVars, rx, manual,
                 cancelRequested, keyRun>>
  /\ profile.calls[c].pc \in {"idle", "returned", "threw"}
  /\ \E forceRefresh \in BOOLEAN :
       profile' = [profile EXCEPT !.calls[c] =
                     [IdleProfileCall EXCEPT !.pc = "check", !.forceRefresh = forceRefresh,
                                             !.id = profile.configured]]

\* a plausible bug: the cache is used whatever resume it was read from
GetProfileCheckMutant(c) ==
  /\ UNCHANGED <<pipeVars, pdfVars, prepVars, repoVars, progressVars, rx, manual,
                 cancelRequested, keyRun>>
  /\ profile.calls[c].pc = "check"
  /\ LET call == profile.calls[c]
     IN IF call.id = NoBaseResume
        THEN profile' = [profile EXCEPT !.calls[c] = [IdleProfileCall EXCEPT !.pc = "threw"]]
        ELSE IF /\ profile.cachedProfile # NoProfile
                /\ ~call.forceRefresh
        THEN profile' = [profile EXCEPT !.calls[c] =
                           [IdleProfileCall EXCEPT !.pc = "returned",
                                                   !.result = profile.cachedProfile]]
        ELSE profile' = [profile EXCEPT !.calls[c].pc = "fetch",
                                        !.calls[c].forceRefresh = FALSE]

\* lines 22-35: no id configured throws; a cached profile of the same id is
\* returned unless a refresh is forced
GetProfileCheck(c) ==
  /\ UNCHANGED <<pipeVars, pdfVars, prepVars, repoVars, progressVars, rx, manual,
                 cancelRequested, keyRun>>
  /\ profile.calls[c].pc = "check"
  /\ LET call == profile.calls[c]
     IN IF call.id = NoBaseResume
        THEN profile' = [profile EXCEPT !.calls[c] = [IdleProfileCall EXCEPT !.pc = "threw"]]
        ELSE IF /\ profile.cachedProfile # NoProfile
                /\ profile.cachedResumeId = call.id
                /\ ~call.forceRefresh
        THEN profile' = [profile EXCEPT !.calls[c] =
                           [IdleProfileCall EXCEPT !.pc = "returned",
                                                   !.result = profile.cachedProfile]]
        ELSE profile' = [profile EXCEPT !.calls[c].pc = "fetch",
                                        !.calls[c].forceRefresh = FALSE]

\* lines 37-62: the remote getResume; it may throw, or answer with empty
\* data, and then the call throws before the cache is assigned; otherwise
\* the data and the id are cached and the data returned
GetProfileFetch(c) ==
  /\ UNCHANGED <<pipeVars, pdfVars, prepVars, repoVars, progressVars, rx, manual,
                 cancelRequested, keyRun>>
  /\ profile.calls[c].pc = "fetch"
  /\ LET call == profile.calls[c]
         data == ProfileOf(profile.remote, call.id)
     IN \E answer \in {"data", "empty", "throws"} :
          IF answer = "data"
          THEN profile' = [profile EXCEPT
                             !.cachedProfile = data,
                             !.cachedResumeId = call.id,
                             !.last = [kind |-> "success", id |-> call.id,
                                       profile |-> data],
                             !.calls[c] = [IdleProfileCall EXCEPT
                                             !.pc = "returned",
                                             !.fetches = call.fetches + 1,
                                             !.result = data]]
          ELSE profile' = [profile EXCEPT
                             !.calls[c] = [IdleProfileCall EXCEPT
                                             !.pc = "threw",
                                             !.fetches = call.fetches + 1]]

NextProfile ==
  \/ SetBaseResumeId
  \/ RemoteEdit
  \/ ClearProfileCache
  \/ \E c \in ProfileCalls :
       \/ GetProfileStart(c)
       \/ GetProfileCheck(c)
       \/ GetProfileFetch(c)

----------------------------------------------------------------------------
(* rxresume/v5.ts: executeWithKeyRetries *)

\* the entries between the commas of RXRESUME_API_KEY: empty, blank, a key,
\* a key with a space before it
KeyEntries == {"", " ", "k1", " k1", "k2"}

\* String.prototype.trim on an entry
TrimEntry(e) == IF e = " " THEN "" ELSE IF e = " k1" THEN "k1" ELSE e

\* the raw values: the lists of at most MaxKeyEntries entries; the list of
\* no entry stands for an unset variable and for the empty string
RawApiKeys == UNION {[1..n -> KeyEntries] : n \in 0..MaxKeyEntries}

RECURSIVE TrimAll(_)
TrimAll(entries) ==
  IF entries = <<>> THEN <<>> ELSE <<TrimEntry(Head(entries))>> \o TrimAll(Tail(entries))

\* lines 83-86: split(","), trim each, drop the empty ones
ParseApiKeys(raw) == SelectSeq(TrimAll(raw), LAMBDA k : k # "")

\* what a request is answered with: a 2xx response, one whose body cannot be
\* read, status 401, another status, or no response at all (fetch throws)
KeyAnswers == {"ok", "unparsable", "401", "500", "network"}

IdleKeyRun ==
  [pc |-> "idle", raw |-> <<>>, apiKeys |-> <<>>, attempt |-> 0, sent |-> <<>>]

InitKeys == keyRun = IdleKeyRun

QuietKeys == InitKeys

\* lines 73-89: the keys are read; none configured throws
KeyRequestStart ==
  /\ UNCHANGED <<pipeVars, pdfVars, prepVars, repoVars, progressVars, rx, manual,
                 cancelRequested, profile>>
  /\ keyRun.pc = "idle"
  /\ \E raw \in RawApiKeys :
       LET apiKeys == ParseApiKeys(raw)
       IN keyRun' = [keyRun EXCEPT !.raw = raw, !.apiKeys = apiKeys,
                                   !.pc = IF apiKeys = <<>> THEN "threw" ELSE "send"]

\* lines 91-102: the request is sent with the key of the attempt
KeySend ==
  /\ UNCHANGED <<pipeVars, pdfVars, prepVars, repoVars, progressVars, rx, manual,
                 cancelRequested, profile>>
  /\ keyRun.pc = "send"
  /\ keyRun.attempt < Len(keyRun.apiKeys)
  /\ keyRun' = [keyRun EXCEPT
                  !.pc = "await",
                  !.sent = Append(@, [key |-> keyRun.apiKeys[keyRun.attempt + 1],
                                      answer |-> "pending"])]

\* a plausible bug: the next key is tried after any error status
KeyAnswerMutant ==
  /\ UNCHANGED <<pipeVars, pdfVars, prepVars, repoVars, progressVars, rx, manual,
                 cancelRequested, profile>>
  /\ keyRun.pc = "await"
  /\ \E answer \in KeyAnswers :
       LET answered == [keyRun EXCEPT !.sent[Len(keyRun.sent)].answer = answer]
       IN IF answer = "ok" THEN keyRun' = [answered EXCEPT !.pc = "returned"]
          ELSE IF /\ answer \in {"401", "500"}
                  /\ Len(keyRun.apiKeys) > 1
                  /\ keyRun.attempt < Len(keyRun.apiKeys) - 1
          THEN keyRun' = [answered EXCEPT !.pc = "send", !.attempt = @ + 1]
          ELSE keyRun' = [answered EXCEPT !.pc = "threw"]

\* lines 99-127: the answer; fetch may throw; a 401 with a key left goes on
\* to the next key, any other error status throws; a 2xx response is
\* returned once its body is read, which may throw as well
KeyAnswer ==
  /\ UNCHANGED <<pipeVars, pdfVars, prepVars, repoVars, progressVars, rx, manual,
                 cancelRequested, profile>>
  /\ keyRun.pc = "await"
  /\ \E answer \in KeyAnswers :
       LET answered == [keyRun EXCEPT !.sent[Len(keyRun.sent)].answer = answer]
       IN IF answer = "ok" THEN keyRun' = [answered EXCEPT !.pc = "returned"]
          ELSE IF /\ answer = "401"
                  /\ Len(keyRun.apiKeys) > 1
                  /\ keyRun.attempt < Len(keyRun.apiKeys) - 1
          THEN keyRun' = [answered EXCEPT !.pc = "send", !.attempt = @ + 1]
          ELSE keyRun' = [answered EXCEPT !.pc = "threw"]

NextKeys ==
  \/ KeyRequestStart
  \/ KeySend
  \/ KeyAnswer

QuietSide ==
  /\ QuietRepo /\ QuietProgress /\ QuietRx /\ QuietManual /\ QuietCancel
  /\ QuietProfile /\ QuietKeys

----------------------------------------------------------------------------
(* A run and a processJob call in flight together, each with its own
   generatePdf call: the first one is the run's, the second one processJob's *)

PdfCallOf == [run |-> 1, processJob |-> 2]
RunPdfCall == PdfCallOf.run
ManualPdfCall == PdfCallOf.processJob

\* the scenario has one runPipeline call and one processJob call
OverlapRuns == {p \in Callers : \A q \in Callers : p <= q}
OverlapManualCalls == {c \in ManualCalls : \A d \in ManualCalls : c <= d}

\* part_004 lines 139-143: the run calls generatePdf for the job of the loop
RunCallsGeneratePdf(p) ==
  /\ run[p].pc = "jobPdf"
  /\ PdfPrepare(RunPdfCall)
  /\ pdf'[RunPdfCall].jobId = CurrentJob(p)

\* part_004 lines 139-148: generatePdf has returned its result to the run
RunGeneratePdfReturns(p) ==
  /\ UNCHANGED <<prepVars, sideVars, manual, cancelRequested>>
  /\ run[p].pc = "jobPdf"
  /\ pdf[RunPdfCall].pc = "returned"
  /\ LET ok == pdfResult[RunPdfCall].success
     IN /\ run' = [run EXCEPT ![p].pc = "jobReady", ![p].pdfOk = ok]
        /\ hist' = [hist EXCEPT ![p].calls = @ \cup {"pdf"},
                                ![p].pdfFailed = IF ok THEN @ ELSE @ \cup {CurrentJob(p)}]
  /\ pdf' = [pdf EXCEPT ![RunPdfCall] = IdlePdf]
  /\ pdfResult' = [pdfResult EXCEPT ![RunPdfCall] = NoPdfResult]
  /\ UNCHANGED <<isPipelineRunning, pipelineRuns, jobs, result>>
  /\ UNCHANGED <<remoteResumes, nextResumeId, localPdfs, deletesIssued>>

\* part_004 lines 244-248: processJob calls generatePdf for its job
ProcessJobCallsGeneratePdf(c) ==
  /\ manual[c].pc = "pdf"
  /\ PdfPrepare(ManualPdfCall)
  /\ pdf'[ManualPdfCall].jobId = manual[c].jobId

\* part_004 lines 244-248: generatePdf has returned its result to processJob
ProcessJobPdfReturns(c) ==
  /\ UNCHANGED <<pipeVars, prepVars, sideVars, cancelRequested>>
  /\ manual[c].pc = "pdf"
  /\ pdf[ManualPdfCall].pc = "returned"
  /\ manual' = [manual EXCEPT ![c].pc = "ready",
                              ![c].pdfOk = pdfResult[ManualPdfCall].success]
  /\ pdf' = [pdf EXCEPT ![ManualPdfCall] = IdlePdf]
  /\ pdfResult' = [pdfResult EXCEPT ![ManualPdfCall] = NoPdfResult]
  /\ UNCHANGED <<remoteResumes, nextResumeId, localPdfs, deletesIssued>>

\* the inputs of the runs of this scenario: a topN of one job, a crawler
\* that finds every posting, a scorer that finds every job suitable
RunPipelineAcquireTopOne(p) ==
  RunPipelineAcquire(p) /\ run'[p].topN = 1

RunCrawlerFindsAll(p) ==
  RunCrawler(p) /\ run'[p].pc = "import" /\ run'[p].crawled = JobIds

ScoreAndRankSuitable(p) ==
  /\ ScoreAndRank(p)
  /\ run'[p].pc # "catch"
  /\ \A j \in DOMAIN run'[p].scores : run'[p].scores[j] >= DefaultMinSuitabilityScore

NextOverlap ==
  \/ \E p \in OverlapRuns :
       \/ RunPipelineAcquireTopOne(p)
       \/ CreatePipelineRun(p)
       \/ RunCrawlerFindsAll(p)
       \/ ImportJobs(p)
       \/ UpdateJobsDiscovered(p)
       \/ ScoreAndRankSuitable(p)
       \/ PersistScore(p)
       \/ MarkProcessing(p)
       \/ GenerateSummary(p)
       \/ SaveSummary(p)
       \/ RunCallsGeneratePdf(p)
       \/ RunGeneratePdfReturns(p)
       \/ MarkReady(p)
       \/ FinalizeCompleted(p)
       \/ FinalizeFailed(p)
  \/ \E c \in OverlapManualCalls :
       \/ ProcessJobGet(c)
       \/ ProcessJobMarkProcessing(c)
       \/ ProcessJobSummary(c)
       \/ ProcessJobSaveSummary(c)
       \/ ProcessJobCallsGeneratePdf(c)
       \/ ProcessJobPdfReturns(c)
       \/ ProcessJobMarkReady(c)
  \/ \E c \in {RunPdfCall, ManualPdfCall} :
       \/ PdfImport(c)
       \/ PdfExport(c)
       \/ PdfDownload(c)
       \/ PdfDelete(c)
       \/ PdfCleanup(c)

----------------------------------------------------------------------------
(* Specifications *)

\* no runPipeline call is made and the job store is empty
QuietPipeline ==
  /\ InitPipeline
  /\ jobs = [j \in JobIds |-> AbsentJob]

\* the pipeline: concurrent runPipeline calls
Init == InitPipeline /\ InitPdf /\ QuietPrep /\ QuietSide
Next == NextPipeline
Spec == Init /\ [][Next]_vars

\* runs and a processJob call, with the generatePdf calls they make
InitOverlap == InitPipeline /\ InitPdf /\ QuietPrep /\ QuietSide
SpecOverlap == InitOverlap /\ [][NextOverlap]_vars

\* the pipeline with requests to cancel the run in flight
NextCancel == NextPipeline \/ CancelPipeline
SpecCancel == Init /\ [][NextCancel]_vars

\* the remote resume lifecycle: concurrent generatePdf calls
InitPdfCalls == QuietPipeline /\ InitPdf /\ QuietPrep /\ QuietSide
SpecPdf == InitPdfCalls /\ [][NextPdf]_vars

\* the job repository: createJob and bulkCreateJobs calls, one after another
InitRepoCalls == QuietPipeline /\ InitPdf /\ QuietPrep /\ QuietSide
SpecRepo == InitRepoCalls /\ [][NextRepo]_vars

\* getProfile calls, settings changes, remote edits and cache clears
InitProfileCalls == QuietPipeline /\ InitPdf /\ QuietPrep /\ QuietSide
SpecProfile == InitProfileCalls /\ [][NextProfile]_vars

\* one request of the v5 client; every request sent is answered or fails
InitKeyRequest == QuietPipeline /\ InitPdf /\ QuietPrep /\ QuietSide
SpecKeys == InitKeyRequest /\ [][NextKeys]_vars /\ WF_vars(NextKeys)

\* two repository calls whose steps interleave
InitRepoRace == QuietPipeline /\ InitPdf /\ QuietPrep /\ QuietSide
SpecRepoRace == InitRepoRace /\ [][NextRepoRace]_vars

\* processJob calls, which no flag keeps apart, on a store of jobs of any status
InitManualCalls ==
  /\ InitManual /\ InitPdf /\ QuietPrep
  /\ QuietRepo /\ QuietProgress /\ QuietRx /\ QuietCancel
  /\ QuietProfile /\ QuietKeys
SpecManual == InitManualCalls /\ [][NextManual]_vars

\* the progress cache: updates, subscriptions and unsubscriptions
InitProgressCalls == QuietPipeline /\ InitPdf /\ QuietPrep /\ QuietSide
SpecProgress == InitProgressCalls /\ [][NextProgress]_vars

\* one operation of the adapter
InitRxCalls == QuietPipeline /\ InitPdf /\ QuietPrep /\ QuietSide
SpecRx == InitRxCalls /\ [][NextRx]_vars

\* the documents the calls are made with: valid for their mode, every item
\* and every object carrying a field the schema does not know
SkillNames == {"A", "B"}
SkillIdOf(name) == IF name = "A" THEN "sA" ELSE "sB"

V5SkillItems ==
  {[id |-> SkillIdOf(n), hidden |-> FALSE, icon |-> "", name |-> n, proficiency |-> "",
    level |-> 1, keywords |-> <<"k1">>, extra |-> "x"] : n \in SkillNames}

V4SkillItems ==
  {[id |-> SkillIdOf(n), visible |-> TRUE, name |-> n, description |-> "d",
    level |-> 1, keywords |-> <<"k1">>, extra |-> "x"] : n \in SkillNames}
  \cup {[name |-> n, keywords |-> <<"k1">>, extra |-> "x"] : n \in SkillNames}

SkillLists(mode) ==
  UNION {[1..n -> IF mode = "v5" THEN V5SkillItems ELSE V4SkillItems] : n \in 0..MaxSkills}

ProjectIds == {"", "p1", "p2"}

ProjectItemsOf(mode) ==
  IF mode = "v5"
    THEN {[id |-> id, hidden |-> h, name |-> "P", extra |-> "x"] :
            id \in ProjectIds, h \in BOOLEAN}
  ELSE {[id |-> id, visible |-> v, name |-> "P", extra |-> "x"] :
            id \in ProjectIds, v \in BOOLEAN}

ProjectLists(mode) == UNION {[1..n -> ProjectItemsOf(mode)] : n \in 0..MaxProjectItems}

Document(mode, skills, projects, sectionShown, summarySection) ==
  IF mode = "v5"
    THEN [basics |-> [name |-> "N", headline |-> "H1"],
          summary |-> [content |-> "S1", hidden |-> FALSE],
          sections |-> [skills |-> [items |-> skills, hidden |-> FALSE],
                        projects |-> [items |-> projects, hidden |-> ~sectionShown,
                                      extra |-> "x"]],
          extra |-> "x"]
  ELSE IF summarySection
    THEN [basics |-> [name |-> "N", headline |-> "H1"],
          sections |-> [summary |-> [content |-> "S1", visible |-> TRUE],
                        skills |-> [items |-> skills, visible |-> TRUE],
                        projects |-> [items |-> projects, visible |-> sectionShown,
                                      extra |-> "x"]],
          extra |-> "x"]
  ELSE [basics |-> [name |-> "N", headline |-> "H1"],
        sections |-> [skills |-> [items |-> skills, visible |-> TRUE],
                      projects |-> [items |-> projects, visible |-> sectionShown,
                                    extra |-> "x"]],
        extra |-> "x"]

TailoredTexts(text) == {Null, "", text}

TailoredSkillEntries == {[name |-> n, keywords |-> <<"k2">>] : n \in {"A", "C"}}

TailoredSkillsInputs ==
  {NoSkills, EmptyStringSkills} \cup
  {[kind |-> "list", items |-> items] :
     items \in UNION {[1..n -> TailoredSkillEntries] : n \in 0..MaxTailoredSkills}}

SelectedProjectIdsInputs ==
  {NullIds} \cup {[kind |-> "csv", parts |-> parts] :
                    parts \in {<<"">>, <<"p1">>, <<"p2", "p1">>, <<"p1", "", "p9">>}}

\* calls that vary the skills and the tailored content, one project in the resume
InitTailor ==
  /\ QuietPipeline
  /\ InitPdf
  /\ QuietSide
  /\ \E mode \in Modes, summarySection \in BOOLEAN :
     \E skills \in SkillLists(mode), headline \in TailoredTexts("H2"),
        summary \in TailoredTexts("S2"), tailoredSkills \in TailoredSkillsInputs,
        selectedProjectIds \in {NullIds, [kind |-> "csv", parts |-> <<"p1">>]} :
       /\ mode = "v5" => summarySection
       /\ prepArgs =
            [mode |-> mode,
             resumeData |-> Document(mode, skills,
                                     <<CHOOSE item \in ProjectItemsOf(mode) : item.id = "p1">>,
                                     TRUE, summarySection),
             tailoredContent |-> [headline |-> headline, summary |-> summary,
                                  skills |-> tailoredSkills],
             selectedProjectIds |-> selectedProjectIds,
             forceVisibleProjectsSection |-> TRUE]
  /\ prepPc = "called"
  /\ workingCopy = NoDocument
  /\ selection = NoSelection

SpecTailor == InitTailor /\ [][NextPrep]_vars

\* calls that vary the projects, the selection and the section flag, one
\* skill in the resume and nothing to tailor
InitSelect ==
  /\ QuietPipeline
  /\ InitPdf
  /\ QuietSide
  /\ \E mode \in Modes, sectionShown \in BOOLEAN, forceVisibleProjectsSection \in BOOLEAN :
     \E projects \in ProjectLists(mode), selectedProjectIds \in SelectedProjectIdsInputs :
       prepArgs =
         [mode |-> mode,
          resumeData |-> Document(mode,
                                  <<CHOOSE item \in (IF mode = "v5" THEN V5SkillItems
                                                     ELSE V4SkillItems) :
                                      Has(item, "id") /\ item.name = "A">>,
                                  projects, sectionShown, TRUE),
          tailoredContent |-> [headline |-> Null, summary |-> Null, skills |-> NoSkills],
          selectedProjectIds |-> selectedProjectIds,
          forceVisibleProjectsSection |-> forceVisibleProjectsSection]
  /\ prepPc = "called"
  /\ workingCopy = NoDocument
  /\ selection = NoSelection

SpecSelect == InitSelect /\ [][NextPrep]_vars
----------------------------------------------------------------------------
(* Properties of runPipeline *)

InFlight(p) == run[p].pc \notin {"idle", "returned", "rejected"}

RunningRuns == {i \in DOMAIN pipelineRuns : pipelineRuns[i].status = "running"}

SingleFlightInv ==
  /\ Cardinality({p \in Callers : InFlight(p)}) <= 1
  /\ Cardinality(RunningRuns) <= 1
  /\ (\E p \in Callers : InFlight(p)) => isPipelineRunning

RejectedCallIsInert ==
  \A p \in Callers :
     (run[p].pc = "idle" /\ isPipelineRunning /\ run'[p] # run[p]) =>
        /\ run'[p].pc = "returned"
        /\ result'[p].returned /\ ~result'[p].success
        /\ result'[p].error = MsgAlreadyRunning
        /\ UNCHANGED <<isPipelineRunning, pipelineRuns, jobs, hist>>

\* C1: at most one run is in flight and at most one PipelineRun is
\* `running` at any time; a call made while the flag is set returns the
\* already-running error, creates no PipelineRun, changes no job and makes
\* no crawler, scorer or PDF call.
SingleFlight == [](SingleFlightInv) /\ [][RejectedCallIsInert]_vars

SingleFlightWitness ==
  \E p, q \in Callers :
     /\ run[p].pc = "jobPdf"
     /\ pipelineRuns[run[p].runId].status = "running"
     /\ result[q].returned /\ result[q].error = MsgAlreadyRunning

\* C2: once no runPipeline call is in progress any more (each has returned
\* or thrown), the in-flight flag is cleared.
FlagClearedAfterRun ==
  (\A p \in Callers : ~InFlight(p)) => ~isPipelineRunning

\* the jobs of the per-job loop that did not fail, under the two readings
\* of `fail`
TopJobSet(p) == SeqToSet(run[p].topJobs)
NotThrown(p) == TopJobSet(p) \ hist[p].threw
NotFailed(p) == TopJobSet(p) \ (hist[p].threw \cup hist[p].summaryFailed)

PartialFailureInv ==
  \A p \in Callers :
     /\ run[p].pc \in {"finalize", "catch"} /\ run[p].idx >= 1
           => run[p].idx = Len(run[p].topJobs) + 1
     /\ run[p].pc = "finalize" =>
           /\ hist[p].ready = NotFailed(p)
           /\ run[p].processed = Cardinality(NotFailed(p))

PartialFailureReturn ==
  \A p \in Callers :
     (run[p].pc = "finalize" /\ result'[p].returned) =>
        /\ result'[p].success
        /\ result'[p].jobsProcessed = Cardinality(NotFailed(p))
        /\ pipelineRuns'[run[p].runId].status = "completed"
        /\ pipelineRuns'[run[p].runId].jobsProcessed = Cardinality(NotFailed(p))

CrawlFailureFatal ==
  [][\A p \in Callers :
       (hist[p].crawlFailed /\ run[p].pc = "catch" /\ run'[p].pc # "catch") =>
          /\ result'[p].returned /\ ~result'[p].success
          /\ result'[p].error = MsgCrawlerFailed
          /\ pipelineRuns'[run[p].runId].status = "failed"
          /\ pipelineRuns'[run[p].runId].errorMessage = MsgCrawlerFailed
          /\ ~isPipelineRunning'
          /\ hist[p].inserted = {} /\ hist[p].scored = {}
          /\ hist[p].processing = {} /\ hist[p].ready = {}]_vars

----------------------------------------------------------------------------
(* Properties of generatePdf *)

\* C5: a generatePdf call that got a temporary resume id from the import has
\* sent a delete for that id by the time it returns; and unless a delete
\* failed, the temporary resume no longer exists on the remote store.
TemporaryResumeDeleted ==
  \A c \in PdfCalls :
     (pdfResult[c].returned /\ pdf[c].imported # NoResume) =>
        /\ pdf[c].imported \in deletesIssued
        /\ (~pdf[c].firstDeleteFailed /\ ~pdf[c].cleanupFailed)
              => pdf[c].imported \notin remoteResumes

TemporaryResumeDeletedWitness ==
  \E c \in PdfCalls :
     /\ pdfResult[c].returned /\ ~pdfResult[c].success
     /\ pdf[c].imported # NoResume /\ ~pdf[c].downloaded
     /\ pdf[c].imported \in deletesIssued
     /\ pdf[c].imported \notin remoteResumes

\* C6: when import, export and download succeeded and the delete of the
\* temporary resume failed, generatePdf returns success with the local path.
DeleteFailureNotSurfaced ==
  \A c \in PdfCalls :
     (pdfResult[c].returned /\ pdf[c].downloaded /\ pdf[c].firstDeleteFailed) =>
        /\ pdfResult[c].success
        /\ pdfResult[c].pdfPath = PdfPathOf(pdf[c].jobId)

----------------------------------------------------------------------------
(* Project selection and visibility *)

SelectedSet == SeqToSet(selection.selectedIds)

Selected == prepPc \in {"selected", "returned"}

\* C7: in automatic project selection, with lockedProjectIds.length <=
\* maxProjects and a picker that returns at most the requested count of ids
\* out of those it was offered, the selected id set has at most maxProjects
\* members and contains every locked id.
ProjectSelectionBound ==
  (Selected /\ selection.automatic) =>
    /\ Cardinality(SelectedSet) <= selection.resumeProjects.maxProjects
    /\ SeqToSet(selection.resumeProjects.lockedProjectIds) \subseteq SelectedSet

\* an automatic selection that fills maxProjects with a locked and a picked project
ProjectSelectionBoundWitness ==
  /\ Selected
  /\ selection.automatic
  /\ selection.resumeProjects.lockedProjectIds # <<>>
  /\ selection.picked # <<>>
  /\ SeqToSet(selection.picked) \cap SeqToSet(selection.resumeProjects.lockedProjectIds) = {}
  /\ Cardinality(SelectedSet) = selection.resumeProjects.maxProjects

VisibilityFlag(mode) == IF mode = "v5" THEN "hidden" ELSE "visible"

SameButFor(before, after, field) ==
  /\ DOMAIN after = DOMAIN before
  /\ \A f \in DOMAIN before \ {field} : after[f] = before[f]

\* the project items as the visibility step found them: the tailoring step
\* does not write the projects section
ProjectsBefore == ProjectItems(prepArgs.resumeData)

\* C8: after applyProjectVisibility with the selected set S, every project
\* item with a non-empty id has hidden = (id not in S) in mode v5 and
\* visible = (id in S) in mode v4, and no other field of any project item
\* has changed.
VisibilityCorrect ==
  prepPc = "returned" =>
    LET mode == prepArgs.mode
        after == ProjectItems(workingCopy)
    IN /\ Len(after) = Len(ProjectsBefore)
       /\ \A i \in 1..Len(after) :
            /\ after[i].id # "" =>
                 /\ mode = "v5" => after[i].hidden = (after[i].id \notin SelectedSet)
                 /\ mode = "v4" => after[i].visible = (after[i].id \in SelectedSet)
            /\ after[i].id = "" => after[i] = ProjectsBefore[i]
            /\ SameButFor(ProjectsBefore[i], after[i], VisibilityFlag(mode))

\* a v5 call that shows a hidden selected project and hides a shown one
VisibilityCorrectWitness ==
  /\ prepPc = "returned"
  /\ prepArgs.mode = "v5"
  /\ \E i, j \in 1..Len(ProjectsBefore) :
       LET after == ProjectItems(workingCopy)
       IN /\ after[i].id \in SelectedSet
          /\ ProjectsBefore[i].hidden /\ ~after[i].hidden
          /\ after[j].id # "" /\ after[j].id \notin SelectedSet
          /\ ~ProjectsBefore[j].hidden /\ after[j].hidden

----------------------------------------------------------------------------
(* Tailoring *)

Tailored == prepPc # "called" /\ prepPc # "idle"

SummaryText(mode, doc) ==
  IF mode = "v5" THEN doc.summary.content
  ELSE IF Has(doc.sections, "summary") THEN doc.sections.summary.content
  ELSE IF Has(doc.basics, "summary") THEN doc.basics.summary
  ELSE Null

NamesAndKeywords(items) ==
  [i \in 1..Len(items) |-> <<items[i].name, items[i].keywords>>]

EmptyOrAbsentSkills(skills) ==
  ParseTailoredSkills(skills) = NoSkills \/ skills.items = <<>>

\* C9: a tailoring value that is absent or empty (null, undefined, empty
\* string, empty list) never clears existing content: the headline, the
\* summary text and the names, keywords and order of the skills entries are
\* the same after the call as before.
EmptyInputKeepsContent ==
  Tailored =>
    LET mode == prepArgs.mode
        before == prepArgs.resumeData
        content == prepArgs.tailoredContent
    IN /\ IsFalsy(content.headline) =>
            /\ workingCopy.basics.headline = before.basics.headline
            /\ Has(workingCopy.basics, "label") = Has(before.basics, "label")
       /\ IsFalsy(content.summary) =>
            SummaryText(mode, workingCopy) = SummaryText(mode, before)
       /\ EmptyOrAbsentSkills(content.skills) =>
            NamesAndKeywords(SkillItems(workingCopy)) = NamesAndKeywords(SkillItems(before))

\* the fields of a skills item the tailoring writes or defaults
TailoredSkillFields == {"id", "name", "keywords", "visible", "description", "level"}

\* the skills item of the input an item of the result was made from
SourceSkill(item) == FindByName(SkillItems(prepArgs.resumeData), item.name)

\* C10: prepareTailoredResumeForPdf keeps every field it does not write: in
\* the returned document everything but the headline and label, the summary
\* target, the tailored fields of skills items and the visibility flags has
\* the value it has in the input, the fields of skills items and project
\* items that the schema does not know included, in both modes.
UnwrittenFieldsPreserved ==
  prepPc = "returned" =>
    LET mode == prepArgs.mode
        before == prepArgs.resumeData
        skillsAfter == SkillItems(workingCopy)
        projectsAfter == ProjectItems(workingCopy)
    IN /\ workingCopy.extra = before.extra
       /\ workingCopy.basics.name = before.basics.name
       /\ workingCopy.sections.projects.extra = before.sections.projects.extra
       /\ \A i \in 1..Len(projectsAfter) :
            SameButFor(ProjectItems(before)[i], projectsAfter[i], VisibilityFlag(mode))
       /\ \A i \in 1..Len(skillsAfter) :
            SourceSkill(skillsAfter[i]) # 0 =>
              LET source == SkillItems(before)[SourceSkill(skillsAfter[i])]
              IN \A f \in DOMAIN source \ TailoredSkillFields :
                   Has(skillsAfter[i], f) /\ skillsAfter[i][f] = source[f]

----------------------------------------------------------------------------
(* Import *)

UrlsOf(rows) == {rows[i].jobUrl : i \in 1..Len(rows)}

OneJobPerUrl == \A i, j \in 1..Len(jobRows) : jobRows[i].jobUrl = jobRows[j].jobUrl => i = j

\* C11: after any sequence of createJob and bulkCreateJobs calls the store
\* holds exactly one job per distinct posting URL; a createJob of a stored
\* URL inserts nothing and returns the existing record unchanged, and a
\* bulkCreateJobs returns created + skipped = length of its list, with
\* created the number of jobs it stored, also when the list repeats a URL.
IdempotentImport ==
  /\ OneJobPerUrl
  /\ UrlsOf(jobRows) = UrlsOf(repoCall.before) \cup UrlsOf(repoCall.inputs)
  /\ SubSeq(jobRows, 1, Len(repoCall.before)) = repoCall.before
  /\ repoCall.op = "createJob" =>
       LET existing == GetJobByUrl(repoCall.before, repoCall.inputs[1].jobUrl)
       IN /\ existing # NoRow => jobRows = repoCall.before /\ repoCall.job = existing
          /\ existing = NoRow => Len(jobRows) = Len(repoCall.before) + 1
          /\ repoCall.job = GetJobByUrl(jobRows, repoCall.inputs[1].jobUrl)
  /\ repoCall.op = "bulkCreateJobs" =>
       /\ repoCall.created + repoCall.skipped = Len(repoCall.inputs)
       /\ repoCall.created = Len(jobRows) - Len(repoCall.before)

\* a bulk import, into a store that is not empty, of a list that repeats a
\* new URL with other fields
IdempotentImportWitness ==
  /\ repoCall.op = "bulkCreateJobs"
  /\ Len(repoCall.inputs) = 2
  /\ repoCall.inputs[1].jobUrl = repoCall.inputs[2].jobUrl
  /\ repoCall.inputs[1].title # repoCall.inputs[2].title
  /\ repoCall.created = 1 /\ repoCall.skipped = 1
  /\ repoCall.before # <<>>

----------------------------------------------------------------------------
(* Job status state machine *)

\* the edges runPipeline and processJob are to take
ProcessingEdges == {<<"discovered", "processing">>, <<"processing", "ready">>}

StatusChangesAreEdges ==
  \A j \in JobIds :
     jobs'[j].status # jobs[j].status => <<jobs[j].status, jobs'[j].status>> \in ProcessingEdges

\* C12: every job status change made by runPipeline or processJob is an
\* edge discovered -> processing or processing -> ready, whatever the status
\* of the job when the operation starts; an applied, rejected or expired job
\* is never moved to processing or ready.
StatusMachineRespected == [][StatusChangesAreEdges]_vars

----------------------------------------------------------------------------
(* Progress *)

Subscribed(ls) == SeqToSet(ls)

\* C13: updateProgress(u) sets the cache to the previous snapshot overridden
\* by exactly the fields present in u, and before it returns every
\* subscribed listener has been called exactly once with the merged snapshot.
UpdateMergesAndNotifies ==
  lastOp.kind = "update" =>
    /\ DOMAIN currentProgress = DOMAIN lastOp.cacheBefore \cup DOMAIN lastOp.update
    /\ \A f \in DOMAIN lastOp.update : currentProgress[f] = lastOp.update[f]
    /\ \A f \in DOMAIN lastOp.cacheBefore \ DOMAIN lastOp.update :
         currentProgress[f] = lastOp.cacheBefore[f]
    /\ \A l \in Subscribed(lastOp.listenersBefore) :
         lastOp.delivered[l] = <<currentProgress>>

\* an update of one field of a cache that holds other fields, two listeners
UpdateMergesAndNotifiesWitness ==
  /\ lastOp.kind = "update"
  /\ DOMAIN lastOp.update = {"jobsScored"}
  /\ "detail" \in DOMAIN lastOp.cacheBefore
  /\ lastOp.cacheBefore.step # "idle"
  /\ lastOp.cacheBefore.jobsScored # lastOp.update.jobsScored
  /\ Cardinality(Subscribed(lastOp.listenersBefore)) = 2

\* C14: subscribeToProgress delivers to the new listener, before returning,
\* exactly one snapshot equal to the current cache; after its unsubscribe
\* handle is called the listener receives no further snapshots, while the
\* other listeners keep receiving every update.
SubscribeDeliversCurrent ==
  /\ lastOp.kind = "subscribe" =>
       /\ lastOp.delivered[lastOp.listener] = <<currentProgress>>
       /\ currentProgress = lastOp.cacheBefore
       /\ \A l \in Listeners \ {lastOp.listener} : lastOp.delivered[l] = <<>>
  /\ lastOp.kind = "unsubscribe" =>
       Subscribed(listeners) = Subscribed(lastOp.listenersBefore) \ {lastOp.listener}
  /\ lastOp.kind = "update" =>
       \A l \in Listeners :
          /\ subscriptions[l].state = "ended" => lastOp.delivered[l] = <<>>
          /\ subscriptions[l].state = "active" => Len(lastOp.delivered[l]) = 1

\* an update after a late joiner subscribed and another listener unsubscribed
SubscribeDeliversCurrentWitness ==
  /\ lastOp.kind = "update"
  /\ lastOp.cacheBefore # IdleProgress
  /\ \E l, k \in Listeners :
       /\ subscriptions[l].state = "ended" /\ lastOp.delivered[l] = <<>>
       /\ subscriptions[k].state = "active" /\ lastOp.delivered[k] = <<currentProgress>>

\* C15: for any updateProgress call and any subset of subscribed listeners
\* that throw, every other subscribed listener still receives the merged
\* snapshot, the cache is updated, and updateProgress does not throw.
ThrowingListenerIsolated ==
  (lastOp.kind = "update" /\ lastOp.throwing # {}) =>
    /\ ~lastOp.thrown
    /\ currentProgress = MergeProgress(lastOp.cacheBefore, lastOp.update)
    /\ \A l \in Subscribed(lastOp.listenersBefore) \ lastOp.throwing :
         lastOp.delivered[l] = <<currentProgress>>

\* the first listener of two throws
ThrowingListenerIsolatedWitness ==
  /\ lastOp.kind = "update"
  /\ Len(lastOp.listenersBefore) = 2
  /\ lastOp.throwing = {lastOp.listenersBefore[1]}
  /\ lastOp.update # <<>>

----------------------------------------------------------------------------
(* Adapter *)

\* C16: an adapter operation with resolved mode M calls only the client of
\* mode M, at most once; when that client fails the error reaches the caller
\* and the client of the other mode is never called, even when its
\* credentials are configured.
NoSilentFallback ==
  /\ rx.calls[OtherMode(rx.mode)] = 0
  /\ rx.calls[rx.mode] <= 1
  /\ (rx.pc = "returned" /\ rx.clientFailed) => rx.outcome \in {"thrown", "failure"}

\* the client of the mode failed while the other mode is configured
NoSilentFallbackWitness ==
  /\ rx.pc = "returned"
  /\ rx.clientFailed
  /\ rx.available[OtherMode(rx.mode)]
  /\ rx.mode = "v5"
  /\ rx.op = "listResumes"

----------------------------------------------------------------------------
(* The per-job steps of runPipeline and processJob *)

\* C17: runPipeline and processJob mark a job `ready` only after its PDF was
\* generated, so every job they mark `ready` has a pdfPath; a job whose PDF
\* generation reports failure is neither marked `ready` nor counted.
ReadyOnlyWithPdf ==
  /\ \A p \in Callers :
       /\ \A j \in hist[p].ready : jobs[j].pdfPath # NullPath
       /\ hist[p].pdfFailed \cap hist[p].ready = {}
       /\ run[p].processed <= Cardinality(hist[p].processing \ hist[p].pdfFailed)
  /\ \A c \in ManualCalls : manual[c].markedReady => manual[c].pdfOk

RunPipelineEnds(p) ==
  run[p].pc \in {"finalize", "catch"} /\ run'[p].pc \in {"returned", "rejected"}

ProcessJobEnds(c) == manual[c].pc # "returned" /\ manual'[c].pc = "returned"

ProcessingLeftAtEnd ==
  /\ \A p \in Callers :
       RunPipelineEnds(p) => \A j \in hist[p].processing : jobs'[j].status # "processing"
  /\ \A c \in ManualCalls :
       (ProcessJobEnds(c) /\ manual[c].markedProcessing) =>
          jobs'[manual[c].jobId].status # "processing"

\* C18: `processing` is transient: every job that runPipeline or processJob
\* marks `processing` has left `processing` by the time the call finishes,
\* whether summary and PDF generation succeeded, reported failure or threw.
ProcessingIsTransient == [][ProcessingLeftAtEnd]_vars

\* C19: in the scoring phase each score is written to the job store as soon
\* as it is produced, before the next job is scored; when scoring fails at
\* the k-th job the scores of the jobs before it are already stored.
ScoresPersistedAsProduced ==
  \A p \in Callers :
     (run[p].pc = "catch" /\ run[p].message = MsgThrown) =>
        hist[p].produced \subseteq hist[p].scored

\* C20: after cancelPipeline is called while a run is in flight, the run
\* marks no further job `processing`.
CancelStopsProcessing ==
  [][cancelRequested =>
       \A j \in JobIds : jobs'[j].status = "processing" => jobs[j].status = "processing"]_vars

\* C29: in every reachable state the snapshot most recently delivered to
\* each currently subscribed listener equals the cached snapshot that
\* getProgress returns.
DeliveredMatchesCache ==
  \A l \in Subscribed(listeners) : lastDelivered[l] = currentProgress

\* C30: a listener that threw during the immediate delivery of
\* subscribeToProgress, whose caller holds no unsubscribe handle, is not left
\* registered, and later updateProgress calls do not invoke it.
FailedSubscriberNotRegistered ==
  \A l \in Listeners :
     (subscriptions[l].state = "active" /\ ~subscriptions[l].handle) =>
        /\ l \notin Subscribed(listeners)
        /\ lastOp.kind = "update" => lastOp.delivered[l] = <<>>

\* C25: in automatic project selection the picker is called with
\* max(0, maxProjects - number of locked ids) slots and with exactly the
\* catalog projects whose id is AI-selectable and not locked; the returned
\* selected ids contain no duplicate.
PickerOfferedUnlocked ==
  (Selected /\ selection.automatic) =>
    LET settings == selection.resumeProjects
        locked == SeqToSet(settings.lockedProjectIds)
    IN /\ selection.desiredCount = DesiredCount(settings)
       /\ selection.eligibleProjects =
            SelectSeq(CatalogIds(workingCopy),
                      LAMBDA id : id \in settings.aiSelectableProjectIds /\ id \notin locked)
       /\ \A i, j \in 1..Len(selection.selectedIds) :
            selection.selectedIds[i] = selection.selectedIds[j] => i = j

----------------------------------------------------------------------------
(* The skills list after tailoring *)

TailoredEntries == prepArgs.tailoredContent.skills.items

NonEmptyTailoredList ==
  /\ prepArgs.tailoredContent.skills.kind = "list"
  /\ TailoredEntries # <<>>

\* C23: after applyTailoredSkills with a non-empty list of n tailored entries,
\* in either mode and for any base skills list, the empty one included, the
\* skills list has exactly n items whose names and keywords are those of the
\* tailored entries, in their order.
TailoredSkillsReplaceList ==
  (Tailored /\ NonEmptyTailoredList) =>
     NamesAndKeywords(SkillItems(workingCopy)) = NamesAndKeywords(TailoredEntries)

DistinctNonEmptyIds(items) ==
  \A i, j \in 1..Len(items) :
     (Has(items[i], "id") /\ Has(items[j], "id") /\ items[i].id # ""
        /\ items[i].id = items[j].id) => i = j

\* C24: after skills tailoring or the sanitize pass, in either mode and for
\* a base skills list whose non-empty ids are pairwise distinct, every skills
\* item has a non-empty id and the ids of the list are pairwise distinct.
SkillIdsDistinct ==
  (Tailored /\ DistinctNonEmptyIds(SkillItems(prepArgs.resumeData))) =>
     LET items == SkillItems(workingCopy)
     IN /\ \A i \in 1..Len(items) : Has(items[i], "id") /\ items[i].id # ""
        /\ DistinctNonEmptyIds(items)

----------------------------------------------------------------------------
(* Failures of generatePdf *)

\* C26: generatePdf never rejects: every failure is returned as a result
\* with success = false and no pdfPath; and when the failure happens before
\* the import step no import, export or delete request is sent.
GeneratePdfNeverRejects ==
  \A c \in PdfCalls :
     /\ pdf[c].pc # "rejected"
     /\ pdf[c].pc = "returned" => pdfResult[c].returned
     /\ pdfResult[c].returned =>
          /\ pdfResult[c].success =>
               pdf[c].downloaded /\ ~pdf[c].failed /\ ~pdf[c].prepareFailed
          /\ ~pdfResult[c].success =>
               pdfResult[c].pdfPath = NullPath /\ pdfResult[c].hasError
     /\ pdf[c].prepareFailed =>
          /\ pdf[c].requests = {}
          /\ pdf[c].imported = NoResume
          /\ pdf[c].pc = "returned" /\ ~pdfResult[c].success

\* a call that failed before the import has returned with a failure result,
\* and another call failed at the import request itself
GeneratePdfNeverRejectsWitness ==
  \E c, d \in PdfCalls :
     /\ pdf[c].prepareFailed /\ pdfResult[c].returned
     /\ pdfResult[d].returned /\ ~pdfResult[d].success
     /\ pdf[d].requests = {"import"}

----------------------------------------------------------------------------
(* Concurrent repository calls *)

RowsWithUrl(u) == {i \in 1..Len(jobRows) : jobRows[i].jobUrl = u}

\* the unique constraint keeps one row per URL
OneRowPerUrl == \A u \in Urls : Cardinality(RowsWithUrl(u)) <= 1

\* C28: for any interleaving of two concurrent createJob or bulkCreateJobs
\* calls with the same not-yet-stored URL exactly one job with that URL is
\* stored and neither call fails: the call that loses the race returns the
\* existing record (createJob) or counts the posting as skipped
\* (bulkCreateJobs).
RaceLoserSeesExisting ==
  /\ OneRowPerUrl
  /\ \A c \in RaceCallers :
       /\ repoRace[c].pc # "failed"
       /\ (repoRace[c].pc = "done" /\ repoRace[c].op = "createJob") =>
            /\ repoRace[c].job = GetJobByUrl(jobRows, repoRace[c].input.jobUrl)
            /\ Cardinality(RowsWithUrl(repoRace[c].input.jobUrl)) = 1
       /\ repoRace[c].op = "bulkCreateJobs" => ~repoRace[c].countedExisting

\* the part of C28 that holds: no call fails or miscounts as long as the
\* other call has not started
AloneNeverFails ==
  \A c, d \in RaceCallers :
     (c # d /\ repoRace[d].pc = "idle") =>
        repoRace[c].pc # "failed" /\ ~repoRace[c].countedExisting

----------------------------------------------------------------------------
(* The profile cache *)

CacheUnchanged ==
  /\ profile.cachedProfile' = profile.cachedProfile
  /\ profile.cachedResumeId' = profile.cachedResumeId

\* the step of a call after it read the configured id: served from what a
\* successful getProfile of the same id loaded last, or sent to the remote
CheckStepAsCached(c) ==
  LET before == profile.calls[c]
      after == profile.calls[c]'
      cached == /\ profile.last.kind = "success"
                /\ profile.last.id = before.id
                /\ ~before.forceRefresh
  IN (before.pc = "check" /\ after.pc # "check" /\ before.id # NoBaseResume) =>
        IF cached
        THEN /\ after.pc = "returned"
             /\ after.fetches = 0
             /\ after.result = profile.last.profile
             /\ CacheUnchanged
        ELSE after.pc = "fetch" /\ after.fetches = 0

\* the step that follows: one fetch; if it succeeds it replaces the cache,
\* if it fails it leaves it
FetchStepReplacesCache(c) ==
  LET before == profile.calls[c]
      after == profile.calls[c]'
  IN (before.pc = "fetch" /\ after.pc # "fetch") =>
        /\ after.fetches = 1
        /\ IF after.pc = "returned"
           THEN /\ after.result = ProfileOf(profile.remote, before.id)
                /\ profile.cachedProfile' = after.result
                /\ profile.cachedResumeId' = before.id
           ELSE after.pc = "threw" /\ CacheUnchanged

\* C27: after a successful getProfile every later call with the same
\* configured id and forceRefresh = false returns the cached profile without
\* a remote getResume; a call with forceRefresh = true, after
\* clearProfileCache or after the id changed makes exactly one remote fetch
\* and replaces the cache; a fetch that fails or returns empty data leaves
\* the cache unchanged.
ProfileCacheRespected ==
  [][\A c \in ProfileCalls : CheckStepAsCached(c) /\ FetchStepReplacesCache(c)]_vars

\* a call has been served from the cache although the remote resume had
\* changed since, while the cache holds what a successful call loaded
ProfileCacheRespectedWitness ==
  \E c \in ProfileCalls :
     /\ profile.calls[c].pc = "returned" /\ profile.calls[c].fetches = 0
     /\ profile.calls[c].result = profile.cachedProfile
     /\ profile.calls[c].result.version # profile.remote
     /\ profile.last.kind = "success"

----------------------------------------------------------------------------
(* The API keys of a v5 request *)

\* the requests sent so far follow the list of keys
KeysTriedInOrder ==
  LET keys == ParseApiKeys(keyRun.raw)
      sent == keyRun.sent
  IN /\ Len(sent) <= Len(keys)
     /\ \A i \in 1..Len(sent) : sent[i].key = keys[i]
     /\ \A i \in 2..Len(sent) : sent[i - 1].answer = "401"
     /\ \A i \in 1..Len(sent) :
          sent[i].answer = "ok" => i = Len(sent) /\ keyRun.pc = "returned"
     /\ keyRun.pc = "returned" =>
          sent # <<>> /\ sent[Len(sent)].answer = "ok"
     /\ keyRun.pc = "threw" =>
          \/ \A i \in 1..Len(keys) : i <= Len(sent) /\ sent[i].answer = "401"
          \/ \E i \in 1..Len(sent) : sent[i].answer \in {"500", "network", "unparsable"}

\* C22: for a list of n API keys a v5 request tries the keys in listed
\* order, sends the request with key i+1 only after key i was answered with
\* 401, stops at the first success and sends at most one request per key;
\* it fails only when every key was answered with 401 or some key got
\* another error, and it always terminates after at most n requests.
KeyRetriesTerminate ==
  /\ []KeysTriedInOrder
  /\ (keyRun.pc # "idle") ~> (keyRun.pc \in {"returned", "threw"})

\* the first key was answered with 401 and the second one with success
KeyRetriesTerminateWitness ==
  /\ keyRun.pc = "returned"
  /\ Len(keyRun.sent) = 2
  /\ keyRun.sent[1].answer = "401"
  /\ Len(keyRun.raw) > Len(keyRun.apiKeys)

----------------------------------------------------------------------------
(* processJob and the flag of the run in flight *)

\* the step with which a processJob call starts
ProcessJobStarts(c) == manual[c].pc = "idle" /\ manual'[c].pc # "idle"

\* C21: processJob neither reads nor changes the in-flight flag: it can
\* start and finish while a run is in flight and does not block a later
\* runPipeline; so processJob and the run's per-job loop can process the
\* same job at the same time, with two temporary remote documents for that
\* job coexisting and both writing the same local PDF path.
ProcessJobIgnoresFlag ==
  [][\A c \in ManualCalls :
       /\ manual'[c] # manual[c] => isPipelineRunning' = isPipelineRunning
       /\ (ProcessJobStarts(c) /\ jobs[manual'[c].jobId].exists /\ ~manual'[c].threw) =>
             manual'[c].pc = "mark"]_vars

\* the run in flight and processJob are both inside generatePdf for the same
\* job: each has imported its own remote document, both documents exist,
\* and both calls have written the PDF of the job
ProcessJobIgnoresFlagWitness ==
  \E p \in Callers, c \in ManualCalls :
     /\ isPipelineRunning
     /\ run[p].pc = "jobPdf" /\ manual[c].pc = "pdf"
     /\ manual[c].jobId = CurrentJob(p)
     /\ pdf[RunPdfCall].jobId = CurrentJob(p)
     /\ pdf[ManualPdfCall].jobId = CurrentJob(p)
     /\ pdf[RunPdfCall].imported # pdf[ManualPdfCall].imported
     /\ {pdf[RunPdfCall].imported, pdf[ManualPdfCall].imported} \subseteq remoteResumes
     /\ pdf[RunPdfCall].downloaded /\ pdf[ManualPdfCall].downloaded
     /\ PdfPathOf(pdf[RunPdfCall].jobId) = PdfPathOf(pdf[ManualPdfCall].jobId)
     /\ PdfPathOf(CurrentJob(p)) \in localPdfs

\* a processJob call has started and returned its success while the run
\* that imported its job was still in flight
FinishedWhileInFlight ==
  \E p \in Callers, c \in ManualCalls :
     /\ isPipelineRunning /\ run[p].pc \notin {"idle", "returned", "rejected"}
     /\ manual[c].pc = "returned" /\ manual[c].success
     /\ manual[c].jobId \in hist[p].inserted

====
